---------------------------- MODULE Spec2Model ----------------------------
(***************************************************************************)
(* pdf-svg: a PDF document whose page is drawn through a small graphics    *)
(* API (PDFDocument), serialized by PDFWriter.generatePDF; an SVG path     *)
(* interpreter (SVGPath) and an SVG renderer (SVGRenderer / SVGParser in   *)
(* svg-to-pdf.js) that drives the document.                                *)
(*                                                                         *)
(* JavaScript values are records [k, v]: k = "num" carries a number in     *)
(* thousandths (v = 500 is 0.5); the other kinds are NaN, +Infinity,       *)
(* -Infinity, undefined and a non-numeric string.                          *)
(***************************************************************************)
EXTENDS Integers, Sequences, FiniteSets, TLC

VARIABLES
  \* ---- PDFDocument (constructor, part_006:6-24) ----
  contentStream,       \* this.contentStream: operator lines, in order
  currentColor,        \* this.currentColor
  currentStrokeColor,  \* this.currentStrokeColor
  currentLineWidth,    \* this.currentLineWidth
  currentOpacity,      \* this.currentOpacity {fill, stroke}
  spotColors,          \* this.spotColors: Map name -> spot colour
  ColorSpace,          \* this.resources.ColorSpace, as the ordered entries
  ExtGState,           \* this.resources.ExtGState, as the ordered entries
  ctm,                 \* this._ctm
  ctmStack,            \* this._ctmStack
  \* ---- PDFWriter (pdf-writer.js:4-8) ----
  objectCount,         \* this.objectCount
  objects,             \* this.objects
  xref,                \* this.xref
  pdf,                 \* the string built by generatePDF (<<>> before end())
  \* ---- bookkeeping of the run ----
  calls,               \* number of API calls made so far
  paintLog,            \* the (role, opacity) pairs painted so far
  \* ---- SVGPath.parse (svg-path.js:19-133) ----
  pathData, currentIndex, pc, command, args, processed, skipped,
  \* ---- SVGRenderer (svg-to-pdf.js / lib/index.js) ----
  options,             \* this.options of the renderer
  threw,               \* an exception escaped the call
  elements,            \* the chain of nested elements being rendered
  styles,              \* the style computed for each element of the chain
  \* ---- SVGtoPDF / renderElement calls in progress (lib/index.js:663-756) ----
  pending,             \* what each active call has still to do, outermost first
  before,              \* the document as it was when SVGtoPDF was called
  trail,               \* for each line appended since then, who pushed it
  \* ---- SVGPath, the interpreter (svg-path.js:8-17) ----
  commands,            \* the commands produced so far
  currentX, currentY,  \* the cursor
  startX, startY,      \* the start of the current subpath
  lastCommand,         \* the type of the last command
  lastControlX, lastControlY,   \* the control point kept for smooth curves
  \* ---- SVGParser.parse (svg-parser.js:3-128) ----
  svgString,           \* the markup given to parse
  frames,              \* the active parseChildren calls, outermost first
  root,                \* what parse returned: <<>> is null, <<node>> a node
  parserPc             \* where the parser is: idle, children, depth, done

docVars == <<contentStream, currentColor, currentStrokeColor, currentLineWidth,
             currentOpacity, spotColors, ColorSpace, ExtGState, ctm, ctmStack>>
writerVars == <<objectCount, objects, xref, pdf>>
logVars == <<calls, paintLog>>
objVars == <<commands, currentX, currentY, startX, startY, lastCommand,
             lastControlX, lastControlY>>
pathVars == <<pathData, currentIndex, pc, command, args, processed, skipped, objVars>>
renderVars == <<options, threw, elements, styles>>
parserVars == <<svgString, frames, root, parserPc>>
walkVars == <<pending, before, trail>>
vars == <<docVars, writerVars, logVars, pathVars, renderVars, parserVars, walkVars>>

---------------------------------------------------------------------------
(* Bounds of the model *)
MaxCalls == 3        \* API calls per document run
MaxNumCalls == 2     \* API calls per run with invalid numeric arguments
MaxResCalls == 5     \* API calls per run that registers resources and ends
MaxPathLen == 4      \* characters of a path-data string
MaxColorCalls == 3   \* calls per run of the renderer's colour resolution
MaxDepth == 3        \* nesting depth of rendered elements
MaxMatCalls == 2     \* transform calls per run over the integer matrices
MaxTokens == 5       \* tags and blanks of a markup string
MaxCmdCalls == 2     \* processCommand calls per interpreter run
MaxGroups == 2       \* coordinate groups after one command letter
MaxRenderCalls == 9  \* document calls after which addSVG renders no further child
MaxSpaceCalls == 5   \* API calls per run that defines spot colours and paints Lab

Scale == 10 * 10 * 10   \* numbers are kept in thousandths

---------------------------------------------------------------------------
(* JavaScript values *)
Num(n) == [k |-> "num", v |-> n, s |-> ""]
NaN == [k |-> "nan", v |-> 0, s |-> ""]
PosInf == [k |-> "inf", v |-> 0, s |-> ""]
NegInf == [k |-> "ninf", v |-> 0, s |-> ""]
Undef == [k |-> "undef", v |-> 0, s |-> ""]
Str(t) == [k |-> "str", v |-> 0, s |-> t]   \* a string (colour token, "abc")
CmykObj == [k |-> "cmykobj", v |-> 0, s |-> ""]  \* the object {c, m, y, k}
LabObj == [k |-> "labobj", v |-> 0, s |-> ""]    \* {type: "lab", L, a, b}

\* typeof num === "number" && isFinite(num)
IsFiniteNumber(x) == x.k = "num"

\* x / d for a positive number d (colour components: r / 255, c / 100)
JsDiv(x, d) ==
  CASE x.k = "num" -> Num(x.v \div d)
    [] x.k = "inf" -> PosInf
    [] x.k = "ninf" -> NegInf
    [] OTHER -> NaN

\* x < 1 as JavaScript evaluates it (NaN compares false)
JsLessThanOne(x) ==
  CASE x.k = "num" -> x.v < Scale
    [] x.k = "ninf" -> TRUE
    [] OTHER -> FALSE

\* Math.max(lo, Math.min(hi, x)) for numbers lo <= hi (in thousandths)
JsClamp(lo, hi, x) ==
  CASE x.k = "num" -> Num(IF x.v < lo THEN lo ELSE IF x.v > hi THEN hi ELSE x.v)
    [] x.k = "inf" -> Num(hi)
    [] x.k = "ninf" -> Num(lo)
    [] OTHER -> NaN

\* PDFDocument._formatNumber: a value that is not a finite number is written
\* as "0"; a finite one is rounded to 6 decimals, which is exact on numbers
\* kept in thousandths.
FormatNumber(num) == IF ~IsFiniteNumber(num) THEN Num(0) ELSE num

---------------------------------------------------------------------------
(* PDFDocument state: colours, resources, content-stream lines *)

NoRes == [pre |-> "", n |-> 0]
ResName(pre, n) == [pre |-> pre, n |-> n]        \* `CS${n}` / `LAB${n}`
NoSpot == [name |-> "", kind |-> "", fallback |-> <<>>, resourceName |-> NoRes]

Rgb(r, g, b) == [type |-> "rgb", comps |-> <<r, g, b>>, spot |-> NoSpot]
Cmyk(c, m, y, k) == [type |-> "cmyk", comps |-> <<c, m, y, k>>, spot |-> NoSpot]
Lab(L, a, b) == [type |-> "lab", comps |-> <<L, a, b>>, spot |-> NoSpot]
Spot(tint, spotColor) == [type |-> "spot", comps |-> <<tint>>, spot |-> spotColor]

\* one operator line of the content stream: operands, then the operator
Line(op, operands) == [op |-> op, args |-> operands]
\* the operand `/${name}` naming a colour-space resource
CsOperand(res) == [k |-> "csname", v |-> res.n, s |-> res.pre]
\* the ExtGState key `${type}_${value}`, also the operand `/${key}` of gs
GsKeyNoRole(type, value) == [role |-> "fill", val |-> value]
GsKey(type, value) == [role |-> type, val |-> value]
GsOperand(key) == [k |-> "gsname", v |-> 0, s |-> key.role, val |-> key.val]

\* the names of the spot colours used by the callers of the model, and the
\* UTF-16 code units of each: "ink" is ASCII, "eu" holds a space, a Latin-1
\* letter (U+00E9) and a wide character (U+20AC)
Names == {"ink", "eu"}
NameChars(name) == IF name = "ink" THEN <<73, 110, 107>>
                   ELSE <<69, 32, 233, 8364>>

\* PDFDocument._parseColor, on the colour tokens the model uses
ColorTokens == {"red", "white", "black", "#00ff00", "spotkey", "other"}
ParseColor(colorStr) ==
  CASE colorStr = "#00ff00" -> Rgb(Num(0), Num(Scale), Num(0))
    [] colorStr = "red" -> Rgb(Num(Scale), Num(0), Num(0))
    [] colorStr = "black" -> Rgb(Num(0), Num(0), Num(0))
    [] colorStr = "white" -> Rgb(Num(Scale), Num(Scale), Num(Scale))
    [] OTHER -> Rgb(Num(0), Num(0), Num(0))

\* resources.ColorSpace / resources.ExtGState are objects whose keys keep
\* insertion order: sequences of entries with distinct keys
HasKey(entries, key) == \E i \in 1..Len(entries) : entries[i].key = key
\* obj[key] = entry
SetEntry(entries, entry) ==
  IF HasKey(entries, entry.key)
  THEN [i \in 1..Len(entries) |->
          IF entries[i].key = entry.key THEN entry ELSE entries[i]]
  ELSE Append(entries, entry)

---------------------------------------------------------------------------
(* PDFDocument operations.  Each is the whole method; Called counts the    *)
(* call.                                                                   *)

Called(name) == calls' = calls + 1

\* a method that puts its lines in front of the content stream
EmitInFront(name, lines) ==
  /\ contentStream' = lines \o contentStream
  /\ Called(name)
  /\ UNCHANGED <<currentColor, currentStrokeColor, currentLineWidth,
                 currentOpacity, spotColors, ColorSpace, ExtGState, ctm,
                 ctmStack, paintLog, writerVars, pathVars, parserVars, renderVars>>

\* a method that only appends lines to the content stream
Emit(name, lines) ==
  /\ contentStream' = contentStream \o lines
  /\ Called(name)
  /\ UNCHANGED <<currentColor, currentStrokeColor, currentLineWidth,
                 currentOpacity, spotColors, ColorSpace, ExtGState, ctm,
                 ctmStack, paintLog, writerVars, pathVars, parserVars, renderVars>>

moveTo(x, y) == Emit("moveTo", <<Line("m", <<FormatNumber(x), FormatNumber(y)>>)>>)

lineTo(x, y) == Emit("lineTo", <<Line("l", <<FormatNumber(x), FormatNumber(y)>>)>>)

bezierCurveTo(cp1x, cp1y, cp2x, cp2y, x, y) ==
  Emit("bezierCurveTo",
       <<Line("c", <<FormatNumber(cp1x), FormatNumber(cp1y), FormatNumber(cp2x),
                     FormatNumber(cp2y), FormatNumber(x), FormatNumber(y)>>)>>)

closePath == Emit("closePath", <<Line("h", <<>>)>>)

rect(x, y, width, height) ==
  Emit("rect", <<Line("re", <<FormatNumber(x), FormatNumber(y),
                              FormatNumber(width), FormatNumber(height)>>)>>)

\* a setter that appends nothing
SetOnly(name) ==
  /\ Called(name)
  /\ UNCHANGED <<contentStream, paintLog, writerVars, pathVars, parserVars, renderVars>>

lineWidth(width) ==
  /\ currentLineWidth' = width
  /\ SetOnly("lineWidth")
  /\ UNCHANGED <<currentColor, currentStrokeColor, currentOpacity, spotColors,
                 ColorSpace, ExtGState, ctm, ctmStack>>

fillOpacity(opacity) ==
  /\ currentOpacity' = [currentOpacity EXCEPT !.fill = opacity]
  /\ SetOnly("fillOpacity")
  /\ UNCHANGED <<currentColor, currentStrokeColor, currentLineWidth, spotColors,
                 ColorSpace, ExtGState, ctm, ctmStack>>

strokeOpacity(opacity) ==
  /\ currentOpacity' = [currentOpacity EXCEPT !.stroke = opacity]
  /\ SetOnly("strokeOpacity")
  /\ UNCHANGED <<currentColor, currentStrokeColor, currentLineWidth, spotColors,
                 ColorSpace, ExtGState, ctm, ctmStack>>

opacity(o) ==
  /\ currentOpacity' = [fill |-> o, stroke |-> o]
  /\ SetOnly("opacity")
  /\ UNCHANGED <<currentColor, currentStrokeColor, currentLineWidth, spotColors,
                 ColorSpace, ExtGState, ctm, ctmStack>>

\* the colour fillColor / strokeColor stores: a string goes through
\* _parseColor; anything else is divided by 255 component by component
ColorOf(r, g, b) ==
  IF r.k = "str" THEN ParseColor(r.s)
  ELSE Rgb(JsDiv(r, 255), JsDiv(g, 255), JsDiv(b, 255))

CmykOf(c, m, y, k) == Cmyk(JsDiv(c, 100), JsDiv(m, 100), JsDiv(y, 100), JsDiv(k, 100))

LabOf(L, a, b) == Lab(JsClamp(0, 100 * Scale, L),
                      JsClamp(-128 * Scale, 127 * Scale, a),
                      JsClamp(-128 * Scale, 127 * Scale, b))

SetFill(name, color) ==
  /\ currentColor' = color
  /\ SetOnly(name)
  /\ UNCHANGED <<currentStrokeColor, currentLineWidth, currentOpacity, spotColors,
                 ColorSpace, ExtGState, ctm, ctmStack>>

SetStroke(name, color) ==
  /\ currentStrokeColor' = color
  /\ SetOnly(name)
  /\ UNCHANGED <<currentColor, currentLineWidth, currentOpacity, spotColors,
                 ColorSpace, ExtGState, ctm, ctmStack>>

fillColor(r, g, b) == SetFill("fillColor", ColorOf(r, g, b))
strokeColor(r, g, b) == SetStroke("strokeColor", ColorOf(r, g, b))
fillColorCMYK(c, m, y, k) == SetFill("fillColorCMYK", CmykOf(c, m, y, k))
strokeColorCMYK(c, m, y, k) == SetStroke("strokeColorCMYK", CmykOf(c, m, y, k))
fillColorLab(L, a, b) == SetFill("fillColorLab", LabOf(L, a, b))
strokeColorLab(L, a, b) == SetStroke("strokeColorLab", LabOf(L, a, b))

\* a name numbered by the spot colours held, not by the entries
NextCSNameBySpots(cs) == ResName("CS", Cardinality(DOMAIN spotColors) + 1)

\* `CS${Object.keys(this.resources.ColorSpace).length + 1}`
NextCSName(cs) == ResName("CS", Len(cs) + 1)

\* spotColors.set(name, spotColor)
MapSet(map, name, value) ==
  [n \in DOMAIN map \cup {name} |-> IF n = name THEN value ELSE map[n]]

\* defineSpotColor(name, cmykFallback), cmykFallback = <<c, m, y, k>>
defineSpotColor(name, cmykFallback) ==
  LET fallback == <<JsDiv(cmykFallback[1], 100), JsDiv(cmykFallback[2], 100),
                    JsDiv(cmykFallback[3], 100), JsDiv(cmykFallback[4], 100)>>
      colorSpaceName == NextCSName(ColorSpace)
      spotColor == [name |-> name, kind |-> "", fallback |-> fallback,
                    resourceName |-> colorSpaceName]
  IN /\ spotColors' = MapSet(spotColors, name, spotColor)
     /\ ColorSpace' = SetEntry(ColorSpace,
                        [key |-> colorSpaceName, type |-> "Separation",
                         name |-> name, data |-> fallback])
     /\ SetOnly("defineSpotColor")
     /\ UNCHANGED <<currentColor, currentStrokeColor, currentLineWidth,
                    currentOpacity, ExtGState, ctm, ctmStack>>

\* defineLabSpotColor(name, labFallback), labFallback = <<L, a, b>>
defineLabSpotColor(name, labFallback) ==
  LET fallback == <<JsClamp(0, 100 * Scale, labFallback[1]),
                    JsClamp(-128 * Scale, 127 * Scale, labFallback[2]),
                    JsClamp(-128 * Scale, 127 * Scale, labFallback[3])>>
      colorSpaceName == NextCSName(ColorSpace)
      spotColor == [name |-> name, kind |-> "lab", fallback |-> fallback,
                    resourceName |-> colorSpaceName]
  IN /\ spotColors' = MapSet(spotColors, name, spotColor)
     /\ ColorSpace' = SetEntry(ColorSpace,
                        [key |-> colorSpaceName, type |-> "Lab",
                         name |-> name, data |-> fallback])
     /\ SetOnly("defineLabSpotColor")
     /\ UNCHANGED <<currentColor, currentStrokeColor, currentLineWidth,
                    currentOpacity, ExtGState, ctm, ctmStack>>

\* fillSpotColor / strokeSpotColor: nothing changes for an unknown name
\* fillSpotColor that makes a spot colour of a name it does not know
fillSpotColorUnchecked(name, tint) ==
  SetFill("fillSpotColor",
          Spot(tint, IF name \in DOMAIN spotColors THEN spotColors[name]
                     ELSE NoSpot))

fillSpotColor(name, tint) ==
  SetFill("fillSpotColor",
          IF name \in DOMAIN spotColors THEN Spot(tint, spotColors[name])
          ELSE currentColor)

strokeSpotColor(name, tint) ==
  SetStroke("strokeSpotColor",
            IF name \in DOMAIN spotColors THEN Spot(tint, spotColors[name])
            ELSE currentStrokeColor)

---------------------------------------------------------------------------
(* Graphics state: save / restore / transform *)

IsNumeric(x) == x.k \in {"num", "inf", "ninf"}
SignOf(x) == CASE x.k = "inf" -> 1
               [] x.k = "ninf" -> -1
               [] x.k = "num" -> IF x.v > 0 THEN 1 ELSE IF x.v < 0 THEN -1 ELSE 0
               [] OTHER -> 0

\* x * y and x + y on JavaScript numbers (anything else is NaN)
JsMul(x, y) ==
  IF x.k = "num" /\ y.k = "num" THEN Num((x.v * y.v) \div Scale)
  ELSE IF ~IsNumeric(x) \/ ~IsNumeric(y) THEN NaN
  ELSE IF SignOf(x) * SignOf(y) = 0 THEN NaN
  ELSE IF SignOf(x) * SignOf(y) > 0 THEN PosInf ELSE NegInf

JsAdd(x, y) ==
  IF x.k = "num" /\ y.k = "num" THEN Num(x.v + y.v)
  ELSE IF ~IsNumeric(x) \/ ~IsNumeric(y) THEN NaN
  ELSE IF x.k = "num" THEN y
  ELSE IF y.k = "num" THEN x
  ELSE IF x.k = y.k THEN x ELSE NaN

Identity == <<Num(Scale), Num(0), Num(0), Num(Scale), Num(0), Num(0)>>

\* the composition with the new matrix on the right of the CTM
ComposeOnRight(m, t) ==
  <<JsAdd(JsMul(t[1], m[1]), JsMul(t[2], m[3])),
    JsAdd(JsMul(t[1], m[2]), JsMul(t[2], m[4])),
    JsAdd(JsMul(t[3], m[1]), JsMul(t[4], m[3])),
    JsAdd(JsMul(t[3], m[2]), JsMul(t[4], m[4])),
    JsAdd(JsAdd(JsMul(t[5], m[1]), JsMul(t[6], m[3])), m[5]),
    JsAdd(JsAdd(JsMul(t[5], m[2]), JsMul(t[6], m[4])), m[6])>>

\* the CTM after transform(a, b, c, d, e, f): the new matrix on the left
Compose(m, t) ==
  <<JsAdd(JsMul(m[1], t[1]), JsMul(m[2], t[3])),
    JsAdd(JsMul(m[1], t[2]), JsMul(m[2], t[4])),
    JsAdd(JsMul(m[3], t[1]), JsMul(m[4], t[3])),
    JsAdd(JsMul(m[3], t[2]), JsMul(m[4], t[4])),
    JsAdd(JsAdd(JsMul(m[5], t[1]), JsMul(m[6], t[3])), t[5]),
    JsAdd(JsAdd(JsMul(m[5], t[2]), JsMul(m[6], t[4])), t[6])>>

GState(name, lines, newCtm, newStack) ==
  /\ contentStream' = contentStream \o lines
  /\ ctm' = newCtm
  /\ ctmStack' = newStack
  /\ Called(name)
  /\ UNCHANGED <<currentColor, currentStrokeColor, currentLineWidth,
                 currentOpacity, spotColors, ColorSpace, ExtGState, paintLog,
                 writerVars, pathVars, parserVars, renderVars>>

\* save that emits its marker without pushing the CTM
saveNoPush == GState("save", <<Line("q", <<>>)>>, ctm, ctmStack)

save == GState("save", <<Line("q", <<>>)>>, ctm, Append(ctmStack, ctm))

\* restore that falls back to the identity when there is nothing to pop
restoreResets ==
  GState("restore", <<Line("Q", <<>>)>>,
         IF Len(ctmStack) > 0 THEN ctmStack[Len(ctmStack)] ELSE Identity,
         IF Len(ctmStack) > 0 THEN SubSeq(ctmStack, 1, Len(ctmStack) - 1)
         ELSE ctmStack)

restore ==
  GState("restore", <<Line("Q", <<>>)>>,
         IF Len(ctmStack) > 0 THEN ctmStack[Len(ctmStack)] ELSE ctm,
         IF Len(ctmStack) > 0 THEN SubSeq(ctmStack, 1, Len(ctmStack) - 1)
         ELSE ctmStack)

transform(a, b, c, d, e, f) ==
  GState("transform",
         <<Line("cm", <<FormatNumber(a), FormatNumber(b), FormatNumber(c),
                        FormatNumber(d), FormatNumber(e), FormatNumber(f)>>)>>,
         Compose(<<a, b, c, d, e, f>>, ctm), ctmStack)

translate(x, y) == transform(Num(Scale), Num(0), Num(0), Num(Scale), x, y)

scale(sx, sy) == transform(sx, Num(0), Num(0), sy, Num(0), Num(0))

---------------------------------------------------------------------------
(* Paint: _setColor, _setFillOpacity / _setStrokeOpacity, _setLineWidth *)

IsGenericLab(entry) == entry.type = "Lab" /\ entry.name = ""

\* _ensureLabColorSpace: the name it returns, and the resources after it
EnsureLabName(cs) ==
  IF \E i \in 1..Len(cs) : IsGenericLab(cs[i])
  THEN cs[CHOOSE i \in 1..Len(cs) :
            IsGenericLab(cs[i]) /\ \A j \in 1..(i - 1) : ~IsGenericLab(cs[j])].key
  ELSE ResName("LAB", Len(cs) + 1)

EnsureLab(cs) ==
  IF \E i \in 1..Len(cs) : IsGenericLab(cs[i]) THEN cs
  ELSE SetEntry(cs, [key |-> ResName("LAB", Len(cs) + 1), type |-> "Lab",
                     name |-> "",
                     data |-> <<Num(950), Num(1000), Num(1089), Num(0),
                                Num(100 * Scale), Num(-128 * Scale),
                                Num(127 * Scale), Num(-128 * Scale),
                                Num(127 * Scale)>>])

\* resources.ColorSpace after _setColor(color, type)
ColorSpaceAfter(cs, color) == IF color.type = "lab" THEN EnsureLab(cs) ELSE cs

\* the lines _setColor(color, type) pushes, with cs the resources before it
SetColorLines(cs, color, type) ==
  CASE color.type = "rgb" ->
         <<Line(IF type = "fill" THEN "rg" ELSE "RG",
                <<FormatNumber(color.comps[1]), FormatNumber(color.comps[2]),
                  FormatNumber(color.comps[3])>>)>>
    [] color.type = "cmyk" ->
         <<Line(IF type = "fill" THEN "k" ELSE "K",
                <<FormatNumber(color.comps[1]), FormatNumber(color.comps[2]),
                  FormatNumber(color.comps[3]), FormatNumber(color.comps[4])>>)>>
    [] color.type = "lab" ->
         <<Line(IF type = "fill" THEN "cs" ELSE "CS",
                <<CsOperand(EnsureLabName(cs))>>),
           Line(IF type = "fill" THEN "scn" ELSE "SCN",
                <<FormatNumber(JsDiv(color.comps[1], 100)),
                  FormatNumber(JsDiv(JsAdd(color.comps[2], Num(128 * Scale)), 255)),
                  FormatNumber(JsDiv(JsAdd(color.comps[3], Num(128 * Scale)), 255))>>)>>
    [] color.type = "spot" ->
         <<Line(IF type = "fill" THEN "cs" ELSE "CS",
                <<CsOperand(color.spot.resourceName)>>),
           Line(IF type = "fill" THEN "scn" ELSE "SCN",
                <<FormatNumber(color.comps[1])>>)>>
    [] OTHER -> <<>>

\* _setFillOpacity / _setStrokeOpacity: the line pushed, and _getOpacityGState
OpacityLines(type, value) ==
  IF JsLessThanOne(value) THEN <<Line("gs", <<GsOperand(GsKey(type, value))>>)>>
  ELSE <<>>

ExtGStateAfter(gs, type, value) ==
  IF JsLessThanOne(value) /\ ~HasKey(gs, GsKey(type, value))
  THEN Append(gs, [key |-> GsKey(type, value),
                   dict |-> [name |-> IF type = "fill" THEN "ca" ELSE "CA",
                             val |-> value]])
  ELSE gs

LineWidthLines == <<Line("w", <<FormatNumber(currentLineWidth)>>)>>

Paint(name, lines, newCS, newGS, painted) ==
  /\ contentStream' = contentStream \o lines
  /\ ColorSpace' = newCS
  /\ ExtGState' = newGS
  /\ paintLog' = paintLog \cup painted
  /\ Called(name)
  /\ UNCHANGED <<currentColor, currentStrokeColor, currentLineWidth,
                 currentOpacity, spotColors, ctm, ctmStack, writerVars,
                 pathVars, parserVars, renderVars>>

BadFillLines(fillRule) ==
  <<Line(IF fillRule = "evenodd" THEN "f*" ELSE "f", <<>>)>>
    \o SetColorLines(ColorSpace, currentColor, "fill")
    \o OpacityLines("fill", currentOpacity.fill)

FillLines(fillRule) ==
  SetColorLines(ColorSpace, currentColor, "fill")
    \o OpacityLines("fill", currentOpacity.fill)
    \o <<Line(IF fillRule = "evenodd" THEN "f*" ELSE "f", <<>>)>>

fill(fillRule) ==
  Paint("fill", FillLines(fillRule),
        ColorSpaceAfter(ColorSpace, currentColor),
        ExtGStateAfter(ExtGState, "fill", currentOpacity.fill),
        {[role |-> "fill", val |-> currentOpacity.fill]})

stroke ==
  Paint("stroke",
        SetColorLines(ColorSpace, currentStrokeColor, "stroke")
          \o OpacityLines("stroke", currentOpacity.stroke)
          \o LineWidthLines
          \o <<Line("S", <<>>)>>,
        ColorSpaceAfter(ColorSpace, currentStrokeColor),
        ExtGStateAfter(ExtGState, "stroke", currentOpacity.stroke),
        {[role |-> "stroke", val |-> currentOpacity.stroke]})

fillAndStroke(fillRule) ==
  LET cs1 == ColorSpaceAfter(ColorSpace, currentColor)
      gs1 == ExtGStateAfter(ExtGState, "fill", currentOpacity.fill)
  IN Paint("fillAndStroke",
           SetColorLines(ColorSpace, currentColor, "fill")
             \o SetColorLines(cs1, currentStrokeColor, "stroke")
             \o OpacityLines("fill", currentOpacity.fill)
             \o OpacityLines("stroke", currentOpacity.stroke)
             \o LineWidthLines
             \o <<Line(IF fillRule = "evenodd" THEN "B*" ELSE "B", <<>>)>>,
           ColorSpaceAfter(cs1, currentStrokeColor),
           ExtGStateAfter(gs1, "stroke", currentOpacity.stroke),
           {[role |-> "fill", val |-> currentOpacity.fill],
            [role |-> "stroke", val |-> currentOpacity.stroke]})

---------------------------------------------------------------------------
(* Strings and buffers of the serializer.  A string is a sequence of       *)
(* pieces: ASCII text, decimal numbers, `n 0 obj` / `n 0 R` tokens, and    *)
(* runs of arbitrary characters given by their UTF-16 code units.  A       *)
(* buffer is the same with runs of bytes.                                  *)

Lit(text) == [t |-> "lit", s |-> text, c |-> <<>>, n |-> 0]
Chars(units) == [t |-> "chars", s |-> "", c |-> units, n |-> 0]
IntStr(i) == [t |-> "int", s |-> "", c |-> <<>>, n |-> i]        \* `${i}`
DecStr(v) == [t |-> "dec", s |-> "", c |-> <<>>, n |-> v]        \* a formatted number
Ref(i) == [t |-> "ref", s |-> "", c |-> <<>>, n |-> i]        \* `${i} 0 R`
ObjHdr(i) == [t |-> "hdr", s |-> "", c |-> <<>>, n |-> i]     \* `${i} 0 obj\n`
XrefKw == [t |-> "xrefkw", s |-> "xref\n", c |-> <<>>, n |-> 0]
\* offset.toString().padStart(10, "0") + " 00000 n \n"
XrefLine(offset) == [t |-> "xrefline", s |-> " 00000 n \n", c |-> <<>>, n |-> offset]
StartXref(offset) == [t |-> "startxref", s |-> "\n", c |-> <<>>, n |-> offset]

RECURSIVE Digits(_)
Digits(i) == IF i < 10 THEN 1 ELSE 1 + Digits(i \div 10)

\* length of Number(num.toFixed(6)).toString() for a number in thousandths
RECURSIVE DecLen(_)
DecLen(v) ==
  IF v < 0 THEN 1 + DecLen(0 - v)
  ELSE Digits(v \div Scale) +
       (IF v % Scale = 0 THEN 0
        ELSE IF v % 10 # 0 THEN 4 ELSE IF v % 100 # 0 THEN 3 ELSE 2)

\* the number of characters (of a string) or bytes (of a buffer) of a piece
PieceLen(p) ==
  CASE p.t = "lit" -> Len(p.s)
    [] p.t = "chars" -> Len(p.c)
    [] p.t = "int" -> Digits(p.n)
    [] p.t = "dec" -> DecLen(p.n)
    [] p.t = "ref" -> Digits(p.n) + 4
    [] p.t = "hdr" -> Digits(p.n) + 7
    [] p.t = "xrefkw" -> Len(p.s)
    [] p.t = "xrefline" -> (IF Digits(p.n) > 10 THEN Digits(p.n) ELSE 10) + Len(p.s)
    [] p.t = "startxref" -> Digits(p.n) + Len(p.s)

\* the total length of the pieces lo..hi of a string, by halving
RECURSIVE RangeLen(_, _, _)
RangeLen(str, lo, hi) ==
  IF lo > hi THEN 0
  ELSE IF lo = hi THEN PieceLen(str[lo])
  ELSE LET mid == (lo + hi) \div 2
       IN RangeLen(str, lo, mid) + RangeLen(str, mid + 1, hi)

\* str.length / buffer.length
StrLen(str) == RangeLen(str, 1, Len(str))

\* UTF-8 bytes of one UTF-16 code unit (no surrogate pairs in the model)
Utf8Unit(u) ==
  IF u < 128 THEN <<u>>
  ELSE IF u < 2048 THEN <<192 + (u \div 64), 128 + (u % 64)>>
  ELSE <<224 + (u \div 4096), 128 + ((u \div 64) % 64), 128 + (u % 64)>>

RECURSIVE Utf8Units(_)
Utf8Units(units) ==
  IF units = <<>> THEN <<>> ELSE Utf8Unit(Head(units)) \o Utf8Units(Tail(units))

\* Buffer.from(str): UTF-8
Utf8Encode(str) ==
  [i \in 1..Len(str) |->
     IF str[i].t = "chars" THEN Chars(Utf8Units(str[i].c)) ELSE str[i]]

\* Buffer.from(str, "binary"): one byte per code unit, its low 8 bits
EncodeAsUtf8(str) == Utf8Encode(str)
BinaryEncode(str) ==
  [i \in 1..Len(str) |->
     IF str[i].t = "chars"
     THEN Chars([j \in 1..Len(str[i].c) |-> str[i].c[j] % 256])
     ELSE str[i]]

\* buffer.toString("binary"): one character per byte
BinaryDecode(buf) == buf

\* String(x) of a JavaScript value, as template literals interpolate it
ValueStr(x) ==
  CASE x.k = "num" -> <<DecStr(x.v)>>
    [] x.k = "nan" -> <<Lit("NaN")>>
    [] x.k = "inf" -> <<Lit("Infinity")>>
    [] x.k = "ninf" -> <<Lit("-Infinity")>>
    [] x.k = "undef" -> <<Lit("undefined")>>
    [] x.k = "str" -> <<Lit(x.s)>>
    [] OTHER -> <<Lit("[object Object]")>>

\* PDFWriter.formatNumber
WriterFormatNumber(num) == IF ~IsFiniteNumber(num) THEN <<Lit("0")>> ELSE ValueStr(num)

\* parts.join(sep)
RECURSIVE Join(_, _)
Join(parts, sep) ==
  IF parts = <<>> THEN <<>>
  ELSE IF Len(parts) = 1 THEN parts[1]
  ELSE parts[1] \o <<Lit(sep)>> \o Join(Tail(parts), sep)

\* name.replace(/[\s()]/g, "#20")
RECURSIVE EscapeName(_)
EscapeName(units) ==
  IF units = <<>> THEN <<>>
  ELSE (IF Head(units) \in {9, 10, 13, 32, 40, 41} THEN <<35, 50, 48>>
        ELSE <<Head(units)>>) \o EscapeName(Tail(units))

\* pako.deflate(text): a zlib stream, bytes of any value whose number
\* depends on the text (2 header bytes, data, 4 checksum bytes)
Deflate(lines) ==
  <<120, 156>>
    \o [i \in 1..Len(lines) |-> (200 + 17 * i + 31 * Len(lines[i].args)) % 256]
    \o <<0, 255, 10, 1>>

---------------------------------------------------------------------------
(* PDFWriter: the object table.  A writer state w is [objectCount,         *)
(* objects]; an object without a body (null) is the empty string.          *)

Null == <<>>

\* an allocation that steps the counter by two
AllocateObjectSkipping(w) ==
  [objectCount |-> w.objectCount + 2,
   objects |-> Append(Append(w.objects, Null), Null)]

\* allocateObject: the new reference is the returned objectCount
AllocateObject(w) ==
  [objectCount |-> w.objectCount + 1, objects |-> Append(w.objects, Null)]

\* this.objects[ref] = body
SetObject(w, ref, body) == [w EXCEPT !.objects[ref] = body]

\* addObject(ref, dict, stream) for a dictionary given as its entries;
\* stream is a buffer, Null when there is none
DictStr(entries) ==
  Join(<<<<Lit("<<")>>>>
         \o [i \in 1..Len(entries) |->
               <<Lit("  /" \o entries[i].key \o " ")>> \o entries[i].val]
         \o <<<<Lit(">>")>>>>, "\n")

AddObject(w, ref, entries, stream) ==
  SetObject(w, ref,
    IF stream # Null
    THEN DictStr(entries) \o <<Lit("\nstream\n")>> \o BinaryDecode(stream)
           \o <<Lit("\nendstream")>>
    ELSE DictStr(entries))

Entry(key, val) == [key |-> key, val |-> val]

ResKeyStr(key) == <<Lit("/" \o key.pre), IntStr(key.n)>>

\* the body of the Lab colour space object of a Lab spot colour
NoLabSpaceBody == Null
LabSpaceBody ==
  <<Lit("[/Lab<</BlackPoint[0.0 0.0 0.0]/Range[-128.0 127.0 -128.0 127.0]/WhitePoint[0.964203 1.0 0.824905]>>]")>>

\* buildColorSpaceDict, the Separation branch: w1 is the writer after
\* funcRef was allocated; the tint transform function is object funcRef
FunctionObject(w1, cs) ==
  AddObject(w1, w1.objectCount,
    <<Entry("FunctionType", <<IntStr(2)>>),
      Entry("Domain", <<Lit("[0 1]")>>),
      Entry("C0", <<Lit("[0 0 0 0]")>>),
      Entry("C1", <<Lit("[")>> \o WriterFormatNumber(cs.data[1])
                    \o <<Lit(" ")>> \o WriterFormatNumber(cs.data[2])
                    \o <<Lit(" ")>> \o WriterFormatNumber(cs.data[3])
                    \o <<Lit(" ")>> \o WriterFormatNumber(cs.data[4])
                    \o <<Lit("]")>>),
      Entry("N", <<IntStr(1)>>)>>, Null)

\* w3 is the writer after csRef was allocated
SeparationArray(w3, funcRef, cs) ==
  [w |-> SetObject(w3, w3.objectCount,
           <<Lit("[/Separation /"), Chars(EscapeName(NameChars(cs.name))),
             Lit(" /DeviceCMYK "), Ref(funcRef), Lit("]")>>),
   line |-> ResKeyStr(cs.key) \o <<Lit(" "), Ref(w3.objectCount)>>]

SeparationEntry(w2, cs) == SeparationArray(AllocateObject(w2), w2.objectCount, cs)

\* buildColorSpaceDict, the Lab branch of a Lab spot colour: w2 is the writer
\* after csRef and then labRef were allocated
LabSpotEntry(w2, csRef, cs) ==
  [w |-> SetObject(SetObject(w2, w2.objectCount, LabSpaceBody), csRef,
           <<Lit("[/Separation/"), Chars(EscapeName(NameChars(cs.name))),
             Lit(" "), Ref(w2.objectCount), Lit("<</C0[100.0 0.0 0.0]/C1[")>>
             \o WriterFormatNumber(cs.data[1]) \o <<Lit(" ")>>
             \o WriterFormatNumber(cs.data[2]) \o <<Lit(" ")>>
             \o WriterFormatNumber(cs.data[3])
             \o <<Lit("]/Domain[0 1]/FunctionType 2/N 1.0/Range[0.0 100.0 -128.0 127.0 -128.0 127.0]>>]")>>),
   line |-> ResKeyStr(cs.key) \o <<Lit(" "), Ref(csRef)>>]

\* buildColorSpaceDict, the generic Lab branch: w1 is the writer after csRef
\* was allocated
GenericLabEntry(w1, cs) ==
  [w |-> SetObject(w1, w1.objectCount,
           <<Lit("[/Lab << /WhitePoint [")>>
             \o Join([i \in 1..3 |-> WriterFormatNumber(cs.data[i])], " ")
             \o <<Lit("] /Range [")>>
             \o Join([i \in 1..6 |-> WriterFormatNumber(cs.data[i + 3])], " ")
             \o <<Lit("] >>]")>>),
   line |-> ResKeyStr(cs.key) \o <<Lit(" "), Ref(w1.objectCount)>>]

\* buildColorSpaceDict, one entry of the loop: the writer after it and the
\* line pushed
ColorSpaceEntry(w, cs) ==
  IF cs.type = "Separation"
  THEN SeparationEntry(FunctionObject(AllocateObject(w), cs), cs)
  ELSE IF cs.name # ""
  THEN LabSpotEntry(AllocateObject(AllocateObject(w)), w.objectCount + 1, cs)
  ELSE GenericLabEntry(AllocateObject(w), cs)

\* lines.join("\n") of the lines between "<<" and ">>"
DictOfLines(r) ==
  [w |-> r.w, dict |-> Join(<<<<Lit("<<")>>>> \o r.lines \o <<<<Lit(">>")>>>>, "\n")]

RECURSIVE ColorSpaceLoop(_, _, _, _)
ColorSpaceLoop(w, colorSpaces, i, lines) ==
  IF i > Len(colorSpaces) THEN [w |-> w, lines |-> lines]
  ELSE ColorSpaceLoop(ColorSpaceEntry(w, colorSpaces[i]).w, colorSpaces, i + 1,
                      Append(lines, ColorSpaceEntry(w, colorSpaces[i]).line))

\* buildColorSpaceDict: the writer after it and the dictionary (Null if none)
BuildColorSpaceDict(w, colorSpaces) ==
  IF Len(colorSpaces) = 0 THEN [w |-> w, dict |-> Null]
  ELSE DictOfLines(ColorSpaceLoop(w, colorSpaces, 1, <<>>))

GsKeyStr(key) == <<Lit("/" \o key.role \o "_")>> \o ValueStr(key.val)

\* buildExtGStateDict, one entry of the loop: w1 is the writer after gsRef
\* was allocated
ExtGStateEntry(w1, gs) ==
  [w |-> AddObject(w1, w1.objectCount,
                   <<Entry(gs.dict.name, ValueStr(gs.dict.val))>>, Null),
   line |-> GsKeyStr(gs.key) \o <<Lit(" "), Ref(w1.objectCount)>>]

RECURSIVE ExtGStateLoop(_, _, _, _)
ExtGStateLoop(w, extGStates, i, lines) ==
  IF i > Len(extGStates) THEN [w |-> w, lines |-> lines]
  ELSE ExtGStateLoop(ExtGStateEntry(AllocateObject(w), extGStates[i]).w,
                     extGStates, i + 1,
                     Append(lines, ExtGStateEntry(AllocateObject(w), extGStates[i]).line))

BuildExtGStateDict(w, extGStates) ==
  IF Len(extGStates) = 0 THEN [w |-> w, dict |-> Null]
  ELSE DictOfLines(ExtGStateLoop(w, extGStates, 1, <<>>))

\* getPlateNames
PlateNames(colorSpaces) ==
  LET named == {i \in 1..Len(colorSpaces) :
                  colorSpaces[i].type = "Separation" \/ colorSpaces[i].name # ""}
      F[i \in 0..Len(colorSpaces)] ==
        IF i = 0 THEN <<>>
        ELSE IF i \in named THEN Append(F[i - 1], colorSpaces[i].name)
        ELSE F[i - 1]
  IN F[Len(colorSpaces)]

\* generateXMPMetadata: the packet begins with U+FEFF and carries three
\* 24-character ISO dates; the fixed XML text is abridged to its first line
\* of each part
XMPMetadata(plateNames) ==
  <<Lit("<?xpacket begin=\""), Chars(<<65279>>),
    Lit("\" id=\"W5M0MpCehiHzreSzNTczkc9d\"?>\n<x:xmpmeta xmlns:x=\"adobe:ns:meta/\">\n<xmp:MetadataDate>2026-01-01T00:00:00.000Z</xmp:MetadataDate>\n<xmp:ModifyDate>2026-01-01T00:00:00.000Z</xmp:ModifyDate>\n<xmp:CreateDate>2026-01-01T00:00:00.000Z</xmp:CreateDate>\n<xmpTPg:NPages>1</xmpTPg:NPages>")>>
    \o (IF Len(plateNames) > 0
        THEN <<Lit("\n<xmpTPg:PlateNames>\n<rdf:Seq>\n")>>
               \o Join([i \in 1..Len(plateNames) |->
                          <<Lit("<rdf:li>"), Chars(NameChars(plateNames[i])),
                            Lit("</rdf:li>")>>], "\n")
               \o <<Lit("\n</rdf:Seq>\n</xmpTPg:PlateNames>")>>
        ELSE <<>>)
    \o <<Lit("\n</x:xmpmeta>\n<?xpacket end=\"w\"?>")>>

---------------------------------------------------------------------------
(* PDFWriter.generatePDF *)

PageWidth == Num(595280)     \* options.width || 595.28
PageHeight == Num(841890)    \* options.height || 841.89

\* the allocations made on top of what the previous pass left in the writer
AllocateStructureNoReset ==
  LET w1 == AllocateObject([objectCount |-> objectCount, objects |-> objects])
      w2 == AllocateObject(w1)
      w3 == AllocateObject(w2)
      w4 == AllocateObject(w3)
      w5 == AllocateObject(w4)
      w6 == AllocateObject(w5)
  IN [w |-> w6, catalogRef |-> w1.objectCount, pagesRef |-> w2.objectCount,
      pageRef |-> w3.objectCount, contentRef |-> w4.objectCount,
      resourcesRef |-> w5.objectCount, metadataRef |-> w6.objectCount]

\* generatePDF, the reset of the writer and the six structural allocations:
\* the writer after them and the references they returned
AllocateStructure ==
  LET w1 == AllocateObject([objectCount |-> 0, objects |-> <<>>])
      w2 == AllocateObject(w1)
      w3 == AllocateObject(w2)
      w4 == AllocateObject(w3)
      w5 == AllocateObject(w4)
      w6 == AllocateObject(w5)
  IN [w |-> w6, catalogRef |-> w1.objectCount, pagesRef |-> w2.objectCount,
      pageRef |-> w3.objectCount, contentRef |-> w4.objectCount,
      resourcesRef |-> w5.objectCount, metadataRef |-> w6.objectCount]

\* the Metadata object
MetadataObject(w, ref, xmpMetadata) ==
  AddObject(w, ref,
    <<Entry("Type", <<Lit("/Metadata")>>),
      Entry("Subtype", <<Lit("/XML")>>),
      Entry("Length", <<IntStr(StrLen(xmpMetadata))>>)>>,
    Utf8Encode(xmpMetadata))

\* the Resources object
ResourcesObject(w, ref, colorSpaceDict, extGStateDict) ==
  AddObject(w, ref,
    (IF colorSpaceDict # Null THEN <<Entry("ColorSpace", colorSpaceDict)>> ELSE <<>>)
      \o (IF extGStateDict # Null THEN <<Entry("ExtGState", extGStateDict)>> ELSE <<>>),
    Null)

\* the content stream object
ContentObject(w, ref, compressedContent) ==
  AddObject(w, ref,
    <<Entry("Length", <<IntStr(Len(compressedContent))>>),
      Entry("Filter", <<Lit("/FlateDecode")>>)>>,
    <<Chars(compressedContent)>>)

\* the Page, Pages and Catalog objects
PageTreeObjects(w, a) ==
  AddObject(
    AddObject(
      AddObject(w, a.pageRef,
        <<Entry("Type", <<Lit("/Page")>>),
          Entry("Parent", <<Ref(a.pagesRef)>>),
          Entry("MediaBox", <<Lit("[0 0 ")>> \o WriterFormatNumber(PageWidth)
                              \o <<Lit(" ")>> \o WriterFormatNumber(PageHeight)
                              \o <<Lit("]")>>),
          Entry("Contents", <<Ref(a.contentRef)>>),
          Entry("Resources", <<Ref(a.resourcesRef)>>)>>, Null),
      a.pagesRef,
      <<Entry("Type", <<Lit("/Pages")>>),
        Entry("Kids", <<Lit("["), Ref(a.pageRef), Lit("]")>>),
        Entry("Count", <<IntStr(1)>>)>>, Null),
    a.catalogRef,
    <<Entry("Type", <<Lit("/Catalog")>>),
      Entry("Pages", <<Ref(a.pagesRef)>>),
      Entry("Metadata", <<Ref(a.metadataRef)>>)>>, Null)

\* the objects of the document, in the order generatePDF adds them: gsR is
\* the writer and dictionary after buildExtGStateDict
AllObjects(a, colorSpaceDict, gsR) ==
  PageTreeObjects(
    ContentObject(
      ResourcesObject(
        MetadataObject(gsR.w, a.metadataRef, XMPMetadata(PlateNames(ColorSpace))),
        a.resourcesRef, colorSpaceDict, gsR.dict),
      a.contentRef, Deflate(contentStream)),
    a)

BuildObjects(a, csR) ==
  AllObjects(a, csR.dict, BuildExtGStateDict(csR.w, ExtGState))

\* the header and the loop that appends the objects and records this.xref[i]
Header == <<Lit("%PDF-1.4\n"), Lit("%"), Chars(<<255, 255, 255, 255>>), Lit("\n")>>

RECURSIVE ObjectLoop(_, _, _, _)
ObjectLoop(objs, i, str, offsets) ==
  IF i > Len(objs) THEN [pdf |-> str, xref |-> offsets]
  ELSE IF objs[i] # Null
  THEN ObjectLoop(objs, i + 1,
                  str \o <<ObjHdr(i)>> \o objs[i] \o <<Lit("\nendobj\n")>>,
                  [offsets EXCEPT ![i] = StrLen(str)])
  ELSE ObjectLoop(objs, i + 1, str, offsets)

\* the cross-reference table and the trailer, appended to the objects
XrefAndTrailer(w, catalogRef, body) ==
  body.pdf
    \o <<XrefKw, Lit("0 "), IntStr(w.objectCount + 1), Lit("\n"),
         Lit("0000000000 65535 f \n")>>
    \o [i \in 1..w.objectCount |-> XrefLine(body.xref[i])]
    \o <<Lit("trailer\n"), Lit("<< /Size "), IntStr(w.objectCount + 1),
         Lit(" /Root "), Ref(catalogRef), Lit(" >>\n"), Lit("startxref\n"),
         StartXref(StrLen(body.pdf)), Lit("%%EOF")>>

Serialize(w, catalogRef, body) ==
  [objectCount |-> w.objectCount, objects |-> w.objects, xref |-> body.xref,
   pdf |-> BinaryEncode(XrefAndTrailer(w, catalogRef, body))]

WriteObjects(w, catalogRef) ==
  Serialize(w, catalogRef,
            ObjectLoop(w.objects, 1, Header, [i \in 1..w.objectCount |-> 0]))

GenerateFrom(a) ==
  WriteObjects(BuildObjects(a, BuildColorSpaceDict(a.w, ColorSpace)), a.catalogRef)

\* the result of generatePDF(doc): the writer's fields and the returned buffer
GeneratePDF == GenerateFrom(AllocateStructure)

\* PDFDocument.end()
end ==
  \E r \in {GeneratePDF} :
    /\ objectCount' = r.objectCount
    /\ objects' = r.objects
    /\ xref' = r.xref
    /\ pdf' = r.pdf
    /\ Called("end")
    /\ UNCHANGED <<docVars, paintLog, pathVars, parserVars, renderVars>>

---------------------------------------------------------------------------
(* JavaScript arithmetic and the Math functions of SVGPath.  Numbers are   *)
(* kept in thousandths, angles in thousandths of a radian; the sign of a   *)
(* zero is not kept.  Math.sin, Math.cos and Math.atan2 are exact on the   *)
(* multiples of PI / 8 in this precision and take the nearest such angle   *)
(* elsewhere.                                                              *)

JsNeg(x) ==
  CASE x.k = "num" -> Num(-x.v)
    [] x.k = "inf" -> NegInf
    [] x.k = "ninf" -> PosInf
    [] OTHER -> NaN

JsSub(x, y) == JsAdd(x, JsNeg(y))

AbsInt(i) == IF i < 0 THEN -i ELSE i

\* x / y
JsQuot(x, y) ==
  IF ~IsNumeric(x) \/ ~IsNumeric(y) THEN NaN
  ELSE IF x.k = "num" /\ y.k = "num"
  THEN IF y.v # 0
       THEN Num(SignOf(x) * SignOf(y) * ((AbsInt(x.v) * Scale) \div AbsInt(y.v)))
       ELSE IF x.v = 0 THEN NaN
       ELSE IF x.v > 0 THEN PosInf ELSE NegInf
  ELSE IF x.k = "num" THEN Num(0)
  ELSE IF y.k # "num" THEN NaN
  ELSE IF SignOf(x) * SignOf(y) >= 0 THEN PosInf ELSE NegInf

\* x > y and x < y (false when either is not a number)
JsGreater(x, y) ==
  /\ IsNumeric(x) /\ IsNumeric(y)
  /\ \/ x.k = "num" /\ y.k = "num" /\ x.v > y.v
     \/ x.k = "inf" /\ y.k # "inf"
     \/ y.k = "ninf" /\ x.k # "ninf"

\* !!x for a number or undefined
Truthy(x) == x.k \in {"inf", "ninf"} \/ (x.k = "num" /\ x.v # 0)

MathPI == Num(3142)

MathAbs(x) ==
  CASE x.k = "num" -> Num(AbsInt(x.v))
    [] x.k \in {"inf", "ninf"} -> PosInf
    [] OTHER -> NaN

\* Math.max(0, x)
MathMax0(x) ==
  CASE x.k = "num" -> Num(IF x.v < 0 THEN 0 ELSE x.v)
    [] x.k = "inf" -> PosInf
    [] x.k = "ninf" -> Num(0)
    [] OTHER -> NaN

MathCeil(x) == IF x.k = "num" THEN Num(-(((-x.v) \div Scale) * Scale)) ELSE x

\* the largest r in lo..hi with r * r <= n, given lo * lo <= n
RECURSIVE RootBetween(_, _, _)
RootBetween(n, lo, hi) ==
  IF lo >= hi THEN lo
  ELSE IF ((lo + hi + 1) \div 2) * ((lo + hi + 1) \div 2) <= n
       THEN RootBetween(n, (lo + hi + 1) \div 2, hi)
       ELSE RootBetween(n, lo, ((lo + hi + 1) \div 2) - 1)

MathSqrt(x) ==
  CASE x.k = "num" ->
         IF x.v < 0 THEN NaN
         ELSE Num(RootBetween(x.v * Scale, 0, IF x.v < Scale THEN Scale ELSE x.v))
    [] x.k = "inf" -> PosInf
    [] OTHER -> NaN

\* sin(k * PI / 8) for k = 0..15
SinEighths == <<0, 383, 707, 924, 1000, 924, 707, 383,
                0, -383, -707, -924, -1000, -924, -707, -383>>

\* the multiple of PI / 8 nearest to x
Eighths(x) == (x.v * 16 + MathPI.v) \div (2 * MathPI.v)

MathSin(x) ==
  IF x.k = "num" THEN Num(SinEighths[(Eighths(x) % 16) + 1]) ELSE NaN

MathCos(x) ==
  IF x.k = "num" THEN Num(SinEighths[((Eighths(x) + 4) % 16) + 1]) ELSE NaN

\* the size of a number, infinite ones as one large value
Magnitude(x) == IF x.k = "num" THEN AbsInt(x.v) ELSE Scale * Scale * Scale

\* the angle of (ax, ay), both >= 0, in multiples of PI / 8 (0..4): the
\* bounds are the tangents of PI / 16, 3 PI / 16, 5 PI / 16 and 7 PI / 16
EighthsOf(ay, ax) ==
  IF ay * 1000 < ax * 199 \/ ay = 0 THEN 0
  ELSE IF ay * 1000 < ax * 668 THEN 1
  ELSE IF ay * 1000 < ax * 1497 THEN 2
  ELSE IF ay * 1000 < ax * 5027 THEN 3
  ELSE 4

MathAtan2(y, x) ==
  IF ~IsNumeric(y) \/ ~IsNumeric(x) THEN NaN
  ELSE Num(((IF SignOf(y) < 0 THEN -1 ELSE 1)
            * (IF SignOf(x) < 0
               THEN 8 - EighthsOf(Magnitude(y), Magnitude(x))
               ELSE EighthsOf(Magnitude(y), Magnitude(x)))
            * MathPI.v) \div 8)

---------------------------------------------------------------------------
(* SVGPath: the interpreter of path commands.  `p` is the SVGPath object,  *)
(* a record of its fields; a method is the object after the call.          *)

This == [commands |-> commands, currentX |-> currentX, currentY |-> currentY,
         startX |-> startX, startY |-> startY, lastCommand |-> lastCommand,
         lastControlX |-> lastControlX, lastControlY |-> lastControlY]

\* new SVGPath()
NewPath == [commands |-> <<>>, currentX |-> Num(0), currentY |-> Num(0),
            startX |-> Num(0), startY |-> Num(0), lastCommand |-> "",
            lastControlX |-> Num(0), lastControlY |-> Num(0)]

SVGPath_moveTo(p, x, y) ==
  [p EXCEPT !.commands = Append(@, [type |-> "M", x |-> x, y |-> y]),
            !.currentX = x, !.startX = x, !.currentY = y, !.startY = y,
            !.lastCommand = "M"]

\* lineTo that leaves the cursor where it was
SVGPath_lineToStale(p, x, y) ==
  [p EXCEPT !.commands = Append(@, [type |-> "L", x |-> x, y |-> y]),
            !.lastCommand = "L"]

SVGPath_lineTo(p, x, y) ==
  [p EXCEPT !.commands = Append(@, [type |-> "L", x |-> x, y |-> y]),
            !.currentX = x, !.currentY = y, !.lastCommand = "L"]

SVGPath_bezierCurveTo(p, cp1x, cp1y, cp2x, cp2y, x, y) ==
  [p EXCEPT !.commands = Append(@, [type |-> "C", cp1x |-> cp1x, cp1y |-> cp1y,
                                    cp2x |-> cp2x, cp2y |-> cp2y, x |-> x, y |-> y]),
            !.currentX = x, !.currentY = y,
            !.lastControlX = cp2x, !.lastControlY = cp2y,
            !.lastCommand = "C"]

Two == Num(2 * Scale)

\* 2 * current - lastControl
Reflected(current, lastControl) == JsSub(JsMul(Two, current), lastControl)

SVGPath_smoothBezierCurveTo(p, cp2x, cp2y, x, y) ==
  [SVGPath_bezierCurveTo(
     p,
     IF p.lastCommand \in {"C", "S"}
     THEN Reflected(p.currentX, p.lastControlX) ELSE p.currentX,
     IF p.lastCommand \in {"C", "S"}
     THEN Reflected(p.currentY, p.lastControlY) ELSE p.currentY,
     cp2x, cp2y, x, y)
   EXCEPT !.lastCommand = "S"]

\* from + (2 / 3) * (cp - from)
TwoThirdsTo(from, cp) ==
  JsAdd(from, JsMul(JsQuot(Two, Num(3 * Scale)), JsSub(cp, from)))

\* quadraticCurveTo that keeps the control point of the cubic curve
SVGPath_quadraticCurveToCubic(p, cpx, cpy, x, y) ==
  [SVGPath_bezierCurveTo(p, TwoThirdsTo(p.currentX, cpx), TwoThirdsTo(p.currentY, cpy),
                         TwoThirdsTo(x, cpx), TwoThirdsTo(y, cpy), x, y)
   EXCEPT !.lastCommand = "Q"]

SVGPath_quadraticCurveTo(p, cpx, cpy, x, y) ==
  [SVGPath_bezierCurveTo(p, TwoThirdsTo(p.currentX, cpx), TwoThirdsTo(p.currentY, cpy),
                         TwoThirdsTo(x, cpx), TwoThirdsTo(y, cpy), x, y)
   EXCEPT !.lastControlX = cpx, !.lastControlY = cpy, !.lastCommand = "Q"]

SVGPath_smoothQuadraticCurveTo(p, x, y) ==
  [SVGPath_quadraticCurveTo(
     p,
     IF p.lastCommand \in {"Q", "T"}
     THEN Reflected(p.currentX, p.lastControlX) ELSE p.currentX,
     IF p.lastCommand \in {"Q", "T"}
     THEN Reflected(p.currentY, p.lastControlY) ELSE p.currentY,
     x, y)
   EXCEPT !.lastCommand = "T"]

SVGPath_closePath(p) ==
  [p EXCEPT !.commands = Append(@, [type |-> "Z"]),
            !.currentX = p.startX, !.currentY = p.startY, !.lastCommand = "Z"]

\* a * b * c
Mul3(a, b, c) == JsMul(JsMul(a, b), c)
Square(a) == JsMul(a, a)

\* lines 366-370: phi, the radii and the flags; `from` is the current point
ArcStart(p, rx, ry, xAxisRotation, largeArcFlag, sweepFlag, x, y) ==
  [cosPhi |-> MathCos(JsDiv(JsMul(xAxisRotation, MathPI), 180)),
   sinPhi |-> MathSin(JsDiv(JsMul(xAxisRotation, MathPI), 180)),
   rx |-> MathAbs(rx), ry |-> MathAbs(ry),
   largeArcFlag |-> Truthy(largeArcFlag), sweepFlag |-> Truthy(sweepFlag),
   fromX |-> p.currentX, fromY |-> p.currentY, x |-> x, y |-> y]

\* lines 376-379: x1 and y1
ArcPrime(g) ==
  g @@ [x1 |-> JsAdd(JsDiv(JsMul(g.cosPhi, JsSub(g.fromX, g.x)), 2),
                     JsDiv(JsMul(g.sinPhi, JsSub(g.fromY, g.y)), 2)),
        y1 |-> JsAdd(JsDiv(JsMul(JsNeg(g.sinPhi), JsSub(g.fromX, g.x)), 2),
                     JsDiv(JsMul(g.cosPhi, JsSub(g.fromY, g.y)), 2))]

\* lines 382-386: the radii corrected by lambda
Lambda(g) == JsAdd(JsQuot(Square(g.x1), Square(g.rx)),
                   JsQuot(Square(g.y1), Square(g.ry)))
\* the radii left as given
ArcRadiiAsGiven(g) == g

ArcRadii(g) ==
  IF JsGreater(Lambda(g), Num(Scale))
  THEN [g EXCEPT !.rx = JsMul(@, MathSqrt(Lambda(g))),
                 !.ry = JsMul(@, MathSqrt(Lambda(g)))]
  ELSE g

\* lines 389-394: coef
Coef(g) ==
  JsMul(IF g.largeArcFlag = g.sweepFlag THEN Num(-Scale) ELSE Num(Scale),
        MathSqrt(JsQuot(
          MathMax0(JsSub(JsSub(JsMul(Square(g.rx), Square(g.ry)),
                               JsMul(Square(g.rx), Square(g.y1))),
                         JsMul(Square(g.ry), Square(g.x1)))),
          JsAdd(JsMul(Square(g.rx), Square(g.y1)),
                JsMul(Square(g.ry), Square(g.x1))))))

\* lines 396-397: cx1 and cy1
ArcCenterPrime(g) ==
  g @@ [cx1 |-> JsQuot(Mul3(Coef(g), g.rx, g.y1), g.ry),
        cy1 |-> JsQuot(Mul3(JsNeg(Coef(g)), g.ry, g.x1), g.rx)]

\* lines 399-411: the centre, theta1 and deltaTheta
Theta1(g) == MathAtan2(JsQuot(JsSub(g.y1, g.cy1), g.ry),
                       JsQuot(JsSub(g.x1, g.cx1), g.rx))
DTheta(g) == JsSub(MathAtan2(JsQuot(JsSub(JsNeg(g.y1), g.cy1), g.ry),
                             JsQuot(JsSub(JsNeg(g.x1), g.cx1), g.rx)),
                   Theta1(g))
ArcAngles(g) ==
  g @@ [cx |-> JsAdd(JsSub(JsMul(g.cosPhi, g.cx1), JsMul(g.sinPhi, g.cy1)),
                     JsDiv(JsAdd(g.fromX, g.x), 2)),
        cy |-> JsAdd(JsAdd(JsMul(g.sinPhi, g.cx1), JsMul(g.cosPhi, g.cy1)),
                     JsDiv(JsAdd(g.fromY, g.y), 2)),
        theta1 |-> Theta1(g),
        deltaTheta |->
          IF g.sweepFlag /\ JsGreater(Num(0), DTheta(g))
          THEN JsAdd(DTheta(g), JsMul(Two, MathPI))
          ELSE IF ~g.sweepFlag /\ JsGreater(DTheta(g), Num(0))
          THEN JsSub(DTheta(g), JsMul(Two, MathPI))
          ELSE DTheta(g)]

\* lines 414-418: segments, delta and t
Segments(g) == MathCeil(JsQuot(MathAbs(g.deltaTheta), JsDiv(MathPI, 2)))
Delta(g) == JsQuot(g.deltaTheta, Segments(g))
ArcSegments(g) ==
  g @@ [segments |-> Segments(g),
        delta |-> Delta(g),
        t |-> JsQuot(Mul3(JsQuot(Num(8 * Scale), Num(3 * Scale)),
                          MathSin(JsDiv(Delta(g), 4)), MathSin(JsDiv(Delta(g), 4))),
                     MathSin(JsDiv(Delta(g), 2)))]

\* lines 429-446: cosPhi * rx * u - sinPhi * ry * v + cx  and
\*                sinPhi * rx * u + cosPhi * ry * v + cy
OnEllipseX(g, u, v) ==
  JsAdd(JsSub(Mul3(g.cosPhi, g.rx, u), Mul3(g.sinPhi, g.ry, v)), g.cx)
OnEllipseY(g, u, v) ==
  JsAdd(JsAdd(Mul3(g.sinPhi, g.rx, u), Mul3(g.cosPhi, g.ry, v)), g.cy)

\* lines 421-448: the curve of one pass through the loop, from angle theta
\* to angle thetaNext
ArcSegment(p, g, theta, thetaNext) ==
  SVGPath_bezierCurveTo(
    p,
    OnEllipseX(g, JsSub(MathCos(theta), JsMul(g.t, MathSin(theta))),
                  JsAdd(MathSin(theta), JsMul(g.t, MathCos(theta)))),
    OnEllipseY(g, JsSub(MathCos(theta), JsMul(g.t, MathSin(theta))),
                  JsAdd(MathSin(theta), JsMul(g.t, MathCos(theta)))),
    OnEllipseX(g, JsAdd(MathCos(thetaNext), JsMul(g.t, MathSin(thetaNext))),
                  JsSub(MathSin(thetaNext), JsMul(g.t, MathCos(thetaNext)))),
    OnEllipseY(g, JsAdd(MathCos(thetaNext), JsMul(g.t, MathSin(thetaNext))),
                  JsSub(MathSin(thetaNext), JsMul(g.t, MathCos(thetaNext)))),
    OnEllipseX(g, MathCos(thetaNext), MathSin(thetaNext)),
    OnEllipseY(g, MathCos(thetaNext), MathSin(thetaNext)))

\* lines 420-449: for (let i = 0; i < segments; i++)
RECURSIVE ArcLoop(_, _, _)
ArcLoop(p, g, i) ==
  IF ~JsGreater(g.segments, Num(i * Scale)) THEN p
  ELSE ArcLoop(ArcSegment(p, g,
                          JsAdd(g.theta1, JsMul(Num(i * Scale), g.delta)),
                          JsAdd(JsAdd(g.theta1, JsMul(Num(i * Scale), g.delta)),
                                g.delta)),
               g, i + 1)

\* arcTo without the test for a zero radius
SVGPath_arcToFlattened(p, rx, ry, xAxisRotation, largeArcFlag, sweepFlag, x, y) ==
  [ArcLoop(p,
           ArcSegments(ArcAngles(ArcCenterPrime(ArcRadii(ArcPrime(
             ArcStart(p, rx, ry, xAxisRotation, largeArcFlag, sweepFlag, x, y)))))),
           0)
   EXCEPT !.lastCommand = "A"]

SVGPath_arcTo(p, rx, ry, xAxisRotation, largeArcFlag, sweepFlag, x, y) ==
  IF rx = Num(0) \/ ry = Num(0)
  THEN SVGPath_lineTo(p, x, y)
  ELSE [ArcLoop(p,
                ArcSegments(ArcAngles(ArcCenterPrime(ArcRadii(ArcPrime(
                  ArcStart(p, rx, ry, xAxisRotation, largeArcFlag, sweepFlag, x, y)))))),
                0)
        EXCEPT !.lastCommand = "A"]

\* args[i], undefined beyond the end of the array
ArgAt(a, i) == IF i < Len(a) THEN a[i + 1] ELSE Undef

Arity(type) ==
  CASE type \in {"H", "h", "V", "v"} -> 1
    [] type \in {"M", "m", "L", "l", "T", "t"} -> 2
    [] type \in {"S", "s", "Q", "q"} -> 4
    [] type \in {"C", "c"} -> 6
    [] type \in {"A", "a"} -> 7
    [] OTHER -> 0

\* x + args[i] of the relative letters
RelX(p, a, i) == JsAdd(p.currentX, ArgAt(a, i))
RelY(p, a, i) == JsAdd(p.currentY, ArgAt(a, i))

\* lines 137-281: the body of the loop of each letter, at index i
LoopBody(p, type, a, i) ==
  CASE type = "M" -> IF i + 1 < Len(a)
                     THEN SVGPath_lineTo(p, ArgAt(a, i), ArgAt(a, i + 1)) ELSE p
    [] type = "m" -> SVGPath_lineTo(p, RelX(p, a, i), RelY(p, a, i + 1))
    [] type = "L" -> SVGPath_lineTo(p, ArgAt(a, i), ArgAt(a, i + 1))
    [] type = "l" -> SVGPath_lineTo(p, RelX(p, a, i), RelY(p, a, i + 1))
    [] type = "H" -> SVGPath_lineTo(p, ArgAt(a, i), p.currentY)
    [] type = "h" -> SVGPath_lineTo(p, RelX(p, a, i), p.currentY)
    [] type = "V" -> SVGPath_lineTo(p, p.currentX, ArgAt(a, i))
    [] type = "v" -> SVGPath_lineTo(p, p.currentX, RelY(p, a, i))
    [] type = "C" -> SVGPath_bezierCurveTo(p, ArgAt(a, i), ArgAt(a, i + 1),
                                           ArgAt(a, i + 2), ArgAt(a, i + 3),
                                           ArgAt(a, i + 4), ArgAt(a, i + 5))
    [] type = "c" -> SVGPath_bezierCurveTo(p, RelX(p, a, i), RelY(p, a, i + 1),
                                           RelX(p, a, i + 2), RelY(p, a, i + 3),
                                           RelX(p, a, i + 4), RelY(p, a, i + 5))
    [] type = "S" -> SVGPath_smoothBezierCurveTo(p, ArgAt(a, i), ArgAt(a, i + 1),
                                                 ArgAt(a, i + 2), ArgAt(a, i + 3))
    [] type = "s" -> SVGPath_smoothBezierCurveTo(p, RelX(p, a, i), RelY(p, a, i + 1),
                                                 RelX(p, a, i + 2), RelY(p, a, i + 3))
    [] type = "Q" -> SVGPath_quadraticCurveTo(p, ArgAt(a, i), ArgAt(a, i + 1),
                                              ArgAt(a, i + 2), ArgAt(a, i + 3))
    [] type = "q" -> SVGPath_quadraticCurveTo(p, RelX(p, a, i), RelY(p, a, i + 1),
                                              RelX(p, a, i + 2), RelY(p, a, i + 3))
    [] type = "T" -> SVGPath_smoothQuadraticCurveTo(p, ArgAt(a, i), ArgAt(a, i + 1))
    [] type = "t" -> SVGPath_smoothQuadraticCurveTo(p, RelX(p, a, i), RelY(p, a, i + 1))
    [] type = "A" -> SVGPath_arcTo(p, ArgAt(a, i), ArgAt(a, i + 1), ArgAt(a, i + 2),
                                   ArgAt(a, i + 3), ArgAt(a, i + 4),
                                   ArgAt(a, i + 5), ArgAt(a, i + 6))
    [] type = "a" -> SVGPath_arcTo(p, ArgAt(a, i), ArgAt(a, i + 1), ArgAt(a, i + 2),
                                   ArgAt(a, i + 3), ArgAt(a, i + 4),
                                   RelX(p, a, i + 5), RelY(p, a, i + 6))

\* for (let i = from; i < args.length; i += arity)
RECURSIVE CommandLoop(_, _, _, _)
CommandLoop(p, type, a, i) ==
  IF i >= Len(a) THEN p
  ELSE CommandLoop(LoopBody(p, type, a, i), type, a, i + Arity(type))

\* processCommand(type, args): the object after the call
ProcessCommand(p, type, a) ==
  CASE type = "M" -> IF Len(a) >= 2
                     THEN CommandLoop(SVGPath_moveTo(p, a[1], a[2]), type, a, 2)
                     ELSE p
    [] type = "m" -> CommandLoop(SVGPath_moveTo(p, RelX(p, a, 0), RelY(p, a, 1)),
                                 type, a, 2)
    [] type \in {"Z", "z"} -> SVGPath_closePath(p)
    [] OTHER -> CommandLoop(p, type, a, 0)

---------------------------------------------------------------------------
(* SVGPath.parse: the scanner of path data.  A string is the sequence of   *)
(* its characters; currentIndex counts from 0 as in the code.  One step of *)
(* the model is one pass through the body of the outer loop up to the      *)
(* command letter, or one pass through the body of the number loop.        *)

CommandLetters == {"M", "m", "L", "l", "H", "h", "V", "v", "C", "c", "S", "s",
                   "Q", "q", "T", "t", "A", "a", "Z", "z"}
DigitChars == {"0", "1", "2", "3", "4", "5", "6", "7", "8", "9"}
SpaceChars == {" "}

\* pathData[i]
CharAt(str, i) == str[i + 1]

\* the index reached by `while (i < str.length && set has str[i]) i++`
SkipIn(str, i, set) ==
  IF \E j \in i..(Len(str) - 1) : CharAt(str, j) \notin set
  THEN CHOOSE j \in i..(Len(str) - 1) :
         CharAt(str, j) \notin set /\ \A m \in i..(j - 1) : CharAt(str, m) \in set
  ELSE IF i > Len(str) THEN i ELSE Len(str)

\* d.trim()
Trim(d) ==
  IF \A j \in 1..Len(d) : d[j] \in SpaceChars THEN <<>>
  ELSE SubSeq(d,
              CHOOSE j \in 1..Len(d) :
                d[j] \notin SpaceChars /\ \A m \in 1..(j - 1) : d[m] \in SpaceChars,
              CHOOSE j \in 1..Len(d) :
                d[j] \notin SpaceChars /\ \A m \in (j + 1)..Len(d) : d[m] \in SpaceChars)

\* lines 67-116: the characters taken for one number starting at index i,
\* as [numStr, index]
ScanNumber(str, i) ==
  LET afterSign == IF i < Len(str) /\ CharAt(str, i) = "-" THEN i + 1 ELSE i
      afterInt == SkipIn(str, afterSign, DigitChars)
      afterFrac == IF afterInt < Len(str) /\ CharAt(str, afterInt) = "."
                   THEN SkipIn(str, afterInt + 1, DigitChars)
                   ELSE afterInt
      taken == SubSeq(str, i + 1, afterFrac)
  IN \* lines 101-116: a number that starts with the decimal point
     IF taken = <<>> /\ afterFrac < Len(str) /\ CharAt(str, afterFrac) = "."
     THEN [numStr |-> <<"0", ".">>
                        \o SubSeq(str, afterFrac + 2,
                                  SkipIn(str, afterFrac + 1, DigitChars)),
           index |-> SkipIn(str, afterFrac + 1, DigitChars)]
     ELSE [numStr |-> taken, index |-> afterFrac]

\* lines 50-124: one pass through the body of the number loop, from index i
\* with the arguments read so far: the index and arguments after it, and
\* whether it left the loop by break
NumberIteration(str, i, read) ==
  LET j == SkipIn(str, i, SpaceChars \cup {","})
      num == ScanNumber(str, j)
  IN IF j < Len(str) /\ CharAt(str, j) \in CommandLetters
     THEN [index |-> j, args |-> read, brk |-> TRUE]
     ELSE IF num.numStr # <<>> /\ num.numStr # <<"-">>
     THEN [index |-> num.index, args |-> Append(read, num.numStr), brk |-> FALSE]
     ELSE IF num.numStr = <<"-">>
     THEN [index |-> num.index - 1, args |-> read, brk |-> TRUE]
     ELSE [index |-> num.index, args |-> read, brk |-> FALSE]

DigitValue(c) == CHOOSE n \in 0..9 : <<"0", "1", "2", "3", "4", "5", "6", "7", "8", "9">>[n + 1] = c

RECURSIVE IntegerOf(_)
IntegerOf(digits) ==
  IF digits = <<>> THEN 0
  ELSE IntegerOf(SubSeq(digits, 1, Len(digits) - 1)) * 10 + DigitValue(digits[Len(digits)])

\* parseFloat(numStr) of the strings the scanner builds: an optional sign,
\* digits, an optional point and digits; in thousandths
ParseFloat(numStr) ==
  LET body == IF numStr # <<>> /\ numStr[1] = "-" THEN Tail(numStr) ELSE numStr
      dot == IF \E j \in 1..Len(body) : body[j] = "."
             THEN CHOOSE j \in 1..Len(body) : body[j] = "." ELSE Len(body) + 1
  IN IF Len(body) = 0 \/ body = <<".">> THEN NaN
     ELSE Num((IF body = numStr THEN 1 ELSE -1)
              * (IntegerOf(SubSeq(body, 1, dot - 1)) * Scale
                 + IntegerOf(SubSeq(SubSeq(body, dot + 1, Len(body)) \o <<"0", "0", "0">>,
                                    1, 3))))

\* the object after processCommand(cmd, args) of lines 127-129
ObjectAfter(cmd, read) ==
  IF Len(read) > 0 \/ cmd \in {"Z", "z"}
  THEN ProcessCommand(This, cmd, [j \in 1..Len(read) |-> ParseFloat(read[j])])
  ELSE This

\* the fields of the object become those of p
Becomes(p) ==
  /\ commands' = p.commands
  /\ currentX' = p.currentX
  /\ currentY' = p.currentY
  /\ startX' = p.startX
  /\ startY' = p.startY
  /\ lastCommand' = p.lastCommand
  /\ lastControlX' = p.lastControlX
  /\ lastControlY' = p.lastControlY

\* lines 127-129: processCommand is called with the command and its arguments
ProcessedAfter(cmd, read) ==
  IF Len(read) > 0 \/ cmd \in {"Z", "z"}
  THEN Append(processed, [command |-> cmd, args |-> read])
  ELSE processed

\* processCommand(type, args) called on the object
processCommand(type, a) ==
  /\ Becomes(ProcessCommand(This, type, a))
  /\ processed' = Append(processed, [command |-> type, args |-> a])
  /\ UNCHANGED <<pathData, currentIndex, pc, command, args, skipped,
                 docVars, writerVars, logVars, renderVars, parserVars>>

\* parse(d), lines 19-24
parse(d) ==
  /\ pc = "idle"
  /\ pathData' = Trim(d)
  /\ currentIndex' = 0
  /\ pc' = IF d = <<>> THEN "done" ELSE "outer"
  /\ command' = ""
  /\ args' = <<>>
  /\ processed' = <<>>
  /\ skipped' = <<>>
  /\ Becomes(NewPath)
  /\ UNCHANGED <<docVars, writerVars, logVars, renderVars, parserVars>>

\* lines 26-46: the outer loop up to the command letter
ReadCommand ==
  /\ pc = "outer"
  /\ LET i == SkipIn(pathData, currentIndex, SpaceChars)
     IN IF currentIndex >= Len(pathData) \/ i >= Len(pathData)
        THEN /\ pc' = "done"
             /\ currentIndex' = i
             /\ UNCHANGED <<command, args, skipped>>
        ELSE IF CharAt(pathData, i) \notin CommandLetters
        THEN /\ skipped' = Append(skipped, CharAt(pathData, i))
             /\ currentIndex' = i + 1
             /\ UNCHANGED <<pc, command, args>>
        ELSE /\ command' = CharAt(pathData, i)
             /\ currentIndex' = i + 1
             /\ args' = <<>>
             /\ pc' = "inner"
             /\ UNCHANGED skipped
  /\ UNCHANGED <<pathData, processed, objVars, docVars, writerVars, logVars,
                 renderVars, parserVars>>

\* lines 49-129: the test of the number loop and one pass through its body
ReadNumber ==
  /\ pc = "inner"
  /\ IF currentIndex >= Len(pathData)
     THEN /\ processed' = ProcessedAfter(command, args)
          /\ Becomes(ObjectAfter(command, args))
          /\ pc' = "outer"
          /\ UNCHANGED <<currentIndex, args>>
     ELSE \E r \in {NumberIteration(pathData, currentIndex, args)} :
            /\ currentIndex' = r.index
            /\ args' = r.args
            /\ pc' = IF r.brk THEN "outer" ELSE "inner"
            /\ processed' = IF r.brk THEN ProcessedAfter(command, r.args)
                            ELSE processed
            /\ Becomes(IF r.brk THEN ObjectAfter(command, r.args) ELSE This)
  /\ UNCHANGED <<pathData, command, skipped, docVars, writerVars, logVars,
                 renderVars, parserVars>>

---------------------------------------------------------------------------
(* SVGRenderer.applyColor (lib/index.js; SVGParser.applyColor in           *)
(* svg-to-pdf.js is the same without the special case of white, which      *)
(* yields the same CMYK colour).  options.colorCallback is one of a few    *)
(* callbacks, options.spotColorMap is absent or the map SpotColorMap.      *)

\* the structured colours a callback returns
CmykObjValue == <<Num(10 * Scale), Num(50 * Scale), Num(80 * Scale), Num(5 * Scale)>>
LabObjValue == <<Num(50 * Scale), Num(20 * Scale), Num(0 - 30 * Scale)>>

\* this.options.colorCallback(color): "remap" renames red to a spot key,
\* "cmyk" and "lab" return a structured colour for red; every callback
\* returns undefined for the other tokens
CallbackResult(callback, color) ==
  CASE callback = "remap" /\ color = "red" -> Str("spotkey")
    [] callback = "cmyk" /\ color = "red" -> CmykObj
    [] callback = "lab" /\ color = "red" -> LabObj
    [] OTHER -> Undef

\* lines 941-946: the colour after the callback
Remapped(color) ==
  IF options.colorCallback # "none"
       /\ CallbackResult(options.colorCallback, color) # Undef
  THEN CallbackResult(options.colorCallback, color)
  ELSE Str(color)

\* the spotColorMap of the callers: { spotkey: {name: "ink"},
\* red: {name: "eu", tint: 0.5}, white: {name: "ink", tint: 0} }
SpotColorMapKeys == {"spotkey", "red", "white"}
SpotInfo(key) == CASE key = "spotkey" -> [name |-> "ink", tint |-> Undef]
                   [] key = "white" -> [name |-> "ink", tint |-> Num(0)]
                   [] OTHER -> [name |-> "eu", tint |-> Num(500)]

\* this.options.spotColorMap[color]: an object used as a key is the string
\* "[object Object]", which the map does not hold
SpotHit(color) ==
  options.spotColorMap /\ color.k = "str" /\ color.s \in SpotColorMapKeys

\* spotInfo.tint || 1
TintOrOne(tint) == IF tint.k = "num" /\ tint.v # 0 THEN tint ELSE Num(Scale)

\* SVGRenderer.parseColor, on the tokens of the model: <<r, g, b>>
RendererParseColor(colorStr) ==
  CASE colorStr = "red" -> <<Scale, 0, 0>>
    [] colorStr = "white" -> <<Scale, Scale, Scale>>
    [] colorStr = "#00ff00" -> <<0, Scale, 0>>
    [] OTHER -> <<0, 0, 0>>

Max3(a, b, c) == IF a >= b /\ a >= c THEN a ELSE IF b >= c THEN b ELSE c

\* ColorSpace.rgbToCMYK on components within 0..1: <<c, m, y, k>>
RgbToCMYK(rgb) ==
  LET k == Scale - Max3(rgb[1], rgb[2], rgb[3])
  IN IF k = Scale THEN <<0, 0, 0, Scale>>
     ELSE <<((Scale - rgb[1] - k) * Scale) \div (Scale - k),
            ((Scale - rgb[2] - k) * Scale) \div (Scale - k),
            ((Scale - rgb[3] - k) * Scale) \div (Scale - k), k>>

\* color.toLowerCase() / colorStr.startsWith("#") on a value that is not a
\* string: a TypeError leaves applyColor
Throw ==
  /\ threw' = TRUE
  /\ Called("applyColor")
  /\ UNCHANGED <<docVars, writerVars, paintLog, pathVars, parserVars, options, elements, styles>>

\* lines 956-986: the CMYK branch
ApplyCMYK(color, type) ==
  IF color.k # "str" THEN Throw
  ELSE IF color.s = "white"
  THEN IF type = "fill" THEN fillColorCMYK(Num(0), Num(0), Num(0), Num(0))
       ELSE strokeColorCMYK(Num(0), Num(0), Num(0), Num(0))
  ELSE \E cmyk \in {RgbToCMYK(RendererParseColor(color.s))} :
         IF type = "fill"
         THEN fillColorCMYK(Num(cmyk[1] * 100), Num(cmyk[2] * 100),
                            Num(cmyk[3] * 100), Num(cmyk[4] * 100))
         ELSE strokeColorCMYK(Num(cmyk[1] * 100), Num(cmyk[2] * 100),
                              Num(cmyk[3] * 100), Num(cmyk[4] * 100))

\* applyColor(color, type)
applyColor(color, type) ==
  /\ ~threw
  /\ \E c \in {Remapped(color)} :
       IF SpotHit(c)
       THEN IF type = "fill"
            THEN fillSpotColor(SpotInfo(c.s).name,
                               TintOrOne(SpotInfo(c.s).tint))
            ELSE strokeSpotColor(SpotInfo(c.s).name,
                                 TintOrOne(SpotInfo(c.s).tint))
       ELSE IF options.useCMYK THEN ApplyCMYK(c, type)
       ELSE IF type = "fill" THEN fillColor(c, Undef, Undef)
       ELSE strokeColor(c, Undef, Undef)

---------------------------------------------------------------------------
(* SVGtoPDF and SVGRenderer (lib/index.js; SVGParser.parseElement /        *)
(* computeStyle in svg-to-pdf.js are the same).  elements is the chain of  *)
(* nested elements whose renderElement calls are active, outermost first;  *)
(* styles[i] is the style computed for elements[i].  An element is its tag *)
(* name and its attributes, Undef where absent; the markup of the callers  *)
(* carries no viewBox, stroke-width or fill-rule and no geometry but the   *)
(* height, and their options no width or height.  A call in progress is    *)
(* the list of what it has still to do: document calls, in the order of    *)
(* the code, the loop over the children and the rendering of the root.     *)

NoAttributes ==
  [transform |-> Undef, height |-> Undef, fill |-> Undef, stroke |-> Undef,
   opacity |-> Undef, fillOpacity |-> Undef, strokeOpacity |-> Undef]

\* createElement(node): the element the renderer reads
createElement(tagName, attributes) == [tagName |-> tagName, attributes |-> attributes]

\* getAttribute(name): attributes[name] || null
getAttribute(element, name) == element.attributes[name]

\* the string "type(value)" of a transform attribute, value in thousandths
Fn(type, value) == [k |-> "fn", v |-> value, s |-> type]

StyleAttrs == {"fill", "stroke", "opacity", "fillOpacity", "strokeOpacity"}

NoStyle == [attr \in StyleAttrs |-> Undef]

\* style[attr] = value when element.getAttribute(attr) !== null
Inherit(inherited, element) ==
  [attr \in StyleAttrs |->
     IF getAttribute(element, attr) # Undef THEN getAttribute(element, attr)
     ELSE inherited[attr]]

\* parseFloat(style[attr] || 1)
OrOne(value) == IF value = Undef THEN Num(Scale) ELSE value

\* computeStyle(element, inherited): the style returned keeps its opacity
computeStyle(element, inherited) ==
  LET style == Inherit(inherited, element)
  IN IF style.opacity # Undef
     THEN [style EXCEPT
             !.fillOpacity = JsMul(OrOne(style.fillOpacity), style.opacity),
             !.strokeOpacity = JsMul(OrOne(style.strokeOpacity), style.opacity)]
     ELSE style

\* one thing a call has still to do
Op(op, a) == [op |-> op, a |-> a]

\* applyTransform(transform) on one transform function
applyTransform(t) ==
  CASE t.s = "translate" -> <<Op("translate", <<Num(t.v), Num(0)>>)>>
    [] t.s = "scale" -> <<Op("scale", <<Num(t.v), Num(t.v)>>)>>
    [] OTHER -> <<>>

\* applyStyle(style, strokeOnly): the calls it makes
StyleFill(style) == IF style.fill # Undef THEN style.fill ELSE Str("black")
HasFill(style, strokeOnly) ==
  StyleFill(style).s # "" /\ StyleFill(style).s # "none" /\ ~strokeOnly
HasStroke(style) ==
  style.stroke # Undef /\ style.stroke.s # "" /\ style.stroke.s # "none"

applyStyle(style, strokeOnly) ==
  (IF HasFill(style, strokeOnly)
   THEN <<Op("applyColor", <<StyleFill(style).s, "fill">>),
          Op("fillOpacity", <<OrOne(style.fillOpacity)>>)>>
   ELSE <<>>)
  \o (IF HasStroke(style)
      THEN <<Op("applyColor", <<style.stroke.s, "stroke">>),
             Op("strokeOpacity", <<OrOne(style.strokeOpacity)>>),
             Op("lineWidth", <<Num(Scale)>>)>>
      ELSE <<>>)
  \o (IF HasFill(style, strokeOnly) /\ HasStroke(style)
      THEN <<Op("fillAndStroke", <<"nonzero">>)>>
      ELSE IF HasFill(style, strokeOnly) THEN <<Op("fill", <<"nonzero">>)>>
      ELSE IF HasStroke(style) THEN <<Op("stroke", <<>>)>>
      ELSE <<>>)

\* drawRect without rx and ry, drawLine: parseFloat(null) || 0 is 0
drawRect(element, style) ==
  <<Op("rect", <<Num(0), Num(0), Num(0), Num(0)>>)>> \o applyStyle(style, FALSE)

drawLine(element, style) ==
  <<Op("moveTo", <<Num(0), Num(0)>>), Op("lineTo", <<Num(0), Num(0)>>)>>
    \o applyStyle(style, TRUE)

\* renderElement(element, inheritedStyle) after computeStyle: what it does
\* and in which order
Body(element, style) ==
  CASE element.tagName \in {"svg", "g"} -> <<Op("children", <<>>)>>
    [] element.tagName = "rect" -> drawRect(element, style)
    [] element.tagName = "line" -> drawLine(element, style)
    [] OTHER -> <<>>

Rendering(element, style) ==
  IF getAttribute(element, "transform") # Undef
  THEN <<Op("save", <<>>)>> \o applyTransform(getAttribute(element, "transform"))
         \o Body(element, style) \o <<Op("restore", <<>>)>>
  ELSE Body(element, style)

\* the call on top, and what it does next
Top == pending[Len(pending)]
NextStep == Head(Top.steps)
At(op) == pending # <<>> /\ Top.steps # <<>> /\ NextStep.op = op

\* the document call returned: the renderer goes on, and the lines the call
\* pushed are noted with the call they come from and the opacity it saw
GoOn ==
  /\ pending' = [pending EXCEPT ![Len(pending)].steps = Tail(@)]
  /\ trail' = trail \o [i \in 1..(Len(contentStream') - Len(contentStream)) |->
                          [start |-> Top.start, depth |-> Len(pending),
                           opacity |-> currentOpacity]]
  /\ UNCHANGED before

\* renderElement(element, inheritedStyle), up to its first call
renderElement(element) ==
  /\ Len(elements) < MaxDepth
  /\ \/ pending = <<>>
     \/ At("children")
     \/ At("renderElement") /\ NextStep.a[1] = element
  /\ elements' = Append(elements, element)
  /\ styles' = Append(styles,
                      computeStyle(element,
                                   IF styles = <<>> THEN NoStyle
                                   ELSE styles[Len(styles)]))
  /\ pending' =
       Append(IF At("renderElement")
              THEN [pending EXCEPT ![Len(pending)].steps = Tail(@)]
              ELSE pending,
              [start |-> Len(contentStream),
               steps |-> Rendering(element,
                                   computeStyle(element,
                                                IF styles = <<>> THEN NoStyle
                                                ELSE styles[Len(styles)]))])
  /\ UNCHANGED <<docVars, writerVars, logVars, pathVars, parserVars, options,
                 threw, before, trail>>

\* the loop over element.children has no child left
childrenDone ==
  /\ At("children")
  /\ pending' = [pending EXCEPT ![Len(pending)].steps = Tail(@)]
  /\ UNCHANGED <<docVars, writerVars, logVars, pathVars, parserVars, renderVars,
                 before, trail>>

\* renderElement returns to the element's parent
renderReturn ==
  /\ Len(elements) > 0
  /\ Top.steps = <<>>
  /\ elements' = SubSeq(elements, 1, Len(elements) - 1)
  /\ styles' = SubSeq(styles, 1, Len(styles) - 1)
  /\ pending' = SubSeq(pending, 1, Len(pending) - 1)
  /\ UNCHANGED <<docVars, writerVars, logVars, pathVars, parserVars, options,
                 threw, before, trail>>

\* parseFloat(element.getAttribute("height")) || options.height || 100
RootHeight(element) ==
  IF Truthy(getAttribute(element, "height")) THEN getAttribute(element, "height")
  ELSE Num(100 * Scale)

\* SVGtoPDF(doc, svg, x, y, options), up to the return of doc.save(): svg is
\* <<>> when there is no element, <<element>> otherwise
SVGtoPDF(svg, x, y) ==
  /\ pending = <<>>
  /\ elements = <<>>
  /\ before' = [length |-> Len(contentStream), ctm |-> ctm,
                depth |-> Len(ctmStack), root |-> svg # <<>>]
  /\ IF svg = <<>>
     THEN /\ pending' = <<>>
          /\ trail' = <<>>
          /\ UNCHANGED <<docVars, writerVars, logVars, pathVars, parserVars,
                         renderVars>>
     ELSE /\ save
          /\ pending' =
               <<[start |-> Len(contentStream),
                  steps |-> <<Op("translate", <<x, y>>),
                              Op("translate", <<Num(0), RootHeight(svg[1])>>),
                              Op("scale", <<Num(Scale), Num(-Scale)>>),
                              Op("renderElement", <<svg[1]>>),
                              Op("restore", <<>>)>>]>>
          /\ trail' = <<[start |-> Len(contentStream), depth |-> 1,
                         opacity |-> currentOpacity]>>

\* the next document call of the renderer
DocCall ==
  \/ At("save") /\ save /\ GoOn
  \/ At("restore") /\ restore /\ GoOn
  \/ At("translate") /\ translate(NextStep.a[1], NextStep.a[2]) /\ GoOn
  \/ At("scale") /\ scale(NextStep.a[1], NextStep.a[2]) /\ GoOn
  \/ At("rect") /\ rect(NextStep.a[1], NextStep.a[2], NextStep.a[3], NextStep.a[4])
       /\ GoOn
  \/ At("moveTo") /\ moveTo(NextStep.a[1], NextStep.a[2]) /\ GoOn
  \/ At("lineTo") /\ lineTo(NextStep.a[1], NextStep.a[2]) /\ GoOn
  \/ At("applyColor") /\ applyColor(NextStep.a[1], NextStep.a[2]) /\ GoOn
  \/ At("fillOpacity") /\ fillOpacity(NextStep.a[1]) /\ GoOn
  \/ At("strokeOpacity") /\ strokeOpacity(NextStep.a[1]) /\ GoOn
  \/ At("lineWidth") /\ lineWidth(NextStep.a[1]) /\ GoOn
  \/ At("fill") /\ fill(NextStep.a[1]) /\ GoOn
  \/ At("stroke") /\ stroke /\ GoOn
  \/ At("fillAndStroke") /\ fillAndStroke(NextStep.a[1]) /\ GoOn

---------------------------------------------------------------------------
(* SVGParser.parse (svg-parser.js).  A string is the sequence of its       *)
(* characters and indices count from 0 as in the code.  parseElement is    *)
(* straight-line up to its call of parseChildren; a frame is one active    *)
(* parseChildren call, with the element it collects children for.  One     *)
(* step is one pass through the outer loop of parseChildren or one pass    *)
(* through its inner loop, which looks for the matching closing tag.       *)
(* parseAttributes does not bear on the shape of the tree: a node keeps    *)
(* the attribute text of its tag.                                          *)

WordChars == {"g", "r", "G"}       \* \w, on the characters of the model

\* str.substring(from) and str.substring(from, to)
SubstringFrom(str, from) == SubSeq(str, from + 1, Len(str))
Substring(str, from, to) == SubSeq(str, from + 1, to)

\* str.indexOf(pattern, from) and str.lastIndexOf(pattern)
IndexOf(str, pattern, from) ==
  LET at == {i \in from..(Len(str) - Len(pattern)) :
               SubSeq(str, i + 1, i + Len(pattern)) = pattern}
  IN IF at = {} THEN -1 ELSE CHOOSE i \in at : \A j \in at : i <= j

LastIndexOf(str, pattern) ==
  LET at == {i \in 0..(Len(str) - Len(pattern)) :
               SubSeq(str, i + 1, i + Len(pattern)) = pattern}
  IN IF at = {} THEN -1 ELSE CHOOSE i \in at : \A j \in at : i >= j

\* tagName.toLowerCase()
ToLowerCase(str) == [i \in 1..Len(str) |-> IF str[i] = "G" THEN "g" ELSE str[i]]

\* attrsString.endsWith("/")
EndsWithSlash(str) == str # <<>> /\ str[Len(str)] = "/"

NoMatch == [matched |-> FALSE, tagName |-> <<>>, attrs |-> <<>>, length |-> 0]

\* str.match(/^<(\w+)([^>]*)>/): the name is the longest run of word
\* characters after "<", the attribute text runs up to the first ">"
OpenTagMatch(str) ==
  IF Len(str) < 3 \/ str[1] # "<" \/ str[2] \notin WordChars THEN NoMatch
  ELSE LET nameEnd == SkipIn(str, 1, WordChars)
           gt == IndexOf(str, <<">">>, nameEnd)
       IN IF gt = -1 THEN NoMatch
          ELSE [matched |-> TRUE, tagName |-> Substring(str, 1, nameEnd),
                attrs |-> Substring(str, nameEnd, gt), length |-> gt + 1]

ClosingTag(tagName) == <<"<", "/">> \o tagName \o <<">">>

\* a node of the tree
Element(tagName, attrs, children) ==
  [tagName |-> ToLowerCase(tagName), attributes |-> attrs, children |-> children]

\* parseElement(str) up to its call of parseChildren: null, an element
\* returned without children, or the inner content parseChildren is given
ParseElementHead(str) ==
  LET m == OpenTagMatch(str)
      rest == SubstringFrom(str, m.length)
      closingIndex == LastIndexOf(rest, ClosingTag(m.tagName))
  IN IF ~m.matched
     THEN [kind |-> "null", tagName |-> <<>>, attrs |-> <<>>, inner |-> <<>>]
     ELSE IF EndsWithSlash(m.attrs) \/ closingIndex = -1
     THEN [kind |-> "leaf", tagName |-> m.tagName, attrs |-> m.attrs, inner |-> <<>>]
     ELSE [kind |-> "open", tagName |-> m.tagName, attrs |-> m.attrs,
           inner |-> Substring(rest, 0, closingIndex)]

\* the parseChildren call made for the element of head: `remaining =
\* str.trim()`, no children yet
Frame(head) ==
  [tagName |-> head.tagName, attrs |-> head.attrs, remaining |-> Trim(head.inner),
   children |-> <<>>, childTag |-> <<>>, depth |-> 0, pos |-> 0]

Parser(fs, result, at) == [frames |-> fs, root |-> result, parserPc |-> at]

\* the top frame replaced by f
WithTop(fs, f) == [fs EXCEPT ![Len(fs)] = f]

\* a return that hands the element back without the children collected
ReturnNoChildren(fs) ==
  LET top == fs[Len(fs)]
      element == Element(top.tagName, top.attrs, <<>>)
  IN IF Len(fs) = 1 THEN Parser(<<>>, <<element>>, "done")
     ELSE Parser([SubSeq(fs, 1, Len(fs) - 1) EXCEPT
                    ![Len(fs) - 1].children = Append(@, element)],
                 <<>>, "children")

\* parseChildren returns its children: parseElement puts them in the
\* element and returns it, to parse or to the parseChildren call that is
\* waiting for it, which pushes it
Return(fs) ==
  LET top == fs[Len(fs)]
      element == Element(top.tagName, top.attrs, top.children)
  IN IF Len(fs) = 1 THEN Parser(<<>>, <<element>>, "done")
     ELSE Parser([SubSeq(fs, 1, Len(fs) - 1) EXCEPT
                    ![Len(fs) - 1].children = Append(@, element)],
                 <<>>, "children")

\* lines 52-121: one pass through the outer loop of parseChildren
ChildrenIteration(fs) ==
  LET top == fs[Len(fs)]
      remaining == Trim(top.remaining)
      tagMatch == OpenTagMatch(remaining)
      nextTag == IndexOf(remaining, <<"<">>, 0)
  IN IF remaining = <<>> THEN Return(fs)
     ELSE IF remaining[1] = "<"
     THEN IF tagMatch.matched
          THEN IF EndsWithSlash(tagMatch.attrs)
               THEN Parser(WithTop(fs,
                      [top EXCEPT
                         !.children = Append(@, Element(tagMatch.tagName,
                                                        tagMatch.attrs, <<>>)),
                         !.remaining = SubstringFrom(remaining, tagMatch.length)]),
                      <<>>, "children")
               ELSE Parser(WithTop(fs,
                      [top EXCEPT !.remaining = remaining,
                                  !.childTag = tagMatch.tagName,
                                  !.depth = 1,
                                  !.pos = tagMatch.length]),
                      <<>>, "depth")
          ELSE Parser(WithTop(fs,
                 [top EXCEPT !.remaining = SubstringFrom(remaining, 1)]),
                 <<>>, "children")
     ELSE IF nextTag = -1 THEN Return(fs)
     ELSE Parser(WithTop(fs,
            [top EXCEPT !.remaining = SubstringFrom(remaining, nextTag)]),
            <<>>, "children")

\* lines 85-90: the element closed at nextClose is parsed and pushed, and
\* the outer loop goes on behind it
ChildClosed(fs, nextClose) ==
  LET top == fs[Len(fs)]
      closeEnd == nextClose + Len(ClosingTag(top.childTag))
      head == ParseElementHead(Substring(top.remaining, 0, closeEnd))
      after == [top EXCEPT !.remaining = SubstringFrom(top.remaining, closeEnd),
                           !.depth = 0]
  IN IF head.kind = "open"
     THEN Parser(Append(WithTop(fs, after), Frame(head)), <<>>, "children")
     ELSE IF head.kind = "leaf"
     THEN Parser(WithTop(fs,
            [after EXCEPT !.children =
               Append(@, Element(head.tagName, head.attrs, <<>>))]),
            <<>>, "children")
     ELSE Parser(WithTop(fs, after), <<>>, "children")

\* lines 73-103: the test of the inner loop and one pass through its body;
\* leaving the loop with depth > 0 ends the outer loop too
DepthIteration(fs) ==
  LET top == fs[Len(fs)]
      nextOpen == IndexOf(top.remaining, <<"<">> \o top.childTag, top.pos)
      nextClose == IndexOf(top.remaining, ClosingTag(top.childTag), top.pos)
  IN IF ~(top.depth > 0 /\ top.pos < Len(top.remaining)) THEN Return(fs)
     ELSE IF nextClose = -1 THEN Return(fs)
     ELSE IF nextOpen # -1 /\ nextOpen < nextClose
     THEN Parser(WithTop(fs, [top EXCEPT !.depth = @ + 1, !.pos = nextOpen + 1]),
                 <<>>, "depth")
     ELSE IF top.depth - 1 = 0 THEN ChildClosed(fs, nextClose)
     ELSE Parser(WithTop(fs, [top EXCEPT !.depth = @ - 1, !.pos = nextClose + 1]),
                 <<>>, "depth")

ParserStep(next) ==
  /\ frames' = next.frames
  /\ root' = next.root
  /\ parserPc' = next.parserPc
  /\ UNCHANGED <<svgString, docVars, writerVars, logVars, pathVars, renderVars>>

\* SVGParser.parse(svgString), up to the first pass of parseChildren
svgParse(str) ==
  /\ parserPc = "idle"
  /\ svgString' = str
  /\ \E head \in {ParseElementHead(Trim(str))} :
       \E next \in {IF head.kind = "open"
                     THEN Parser(<<Frame(head)>>, <<>>, "children")
                     ELSE IF head.kind = "leaf"
                     THEN Parser(<<>>, <<Element(head.tagName, head.attrs, <<>>)>>,
                                 "done")
                     ELSE Parser(<<>>, <<>>, "done")} :
         /\ frames' = next.frames
         /\ root' = next.root
         /\ parserPc' = next.parserPc
  /\ UNCHANGED <<docVars, writerVars, logVars, pathVars, renderVars>>

parseChildren ==
  /\ parserPc = "children"
  /\ \E next \in {ChildrenIteration(frames)} : ParserStep(next)

findClosingTag ==
  /\ parserPc = "depth"
  /\ \E next \in {DepthIteration(frames)} : ParserStep(next)

---------------------------------------------------------------------------
(* Initial states *)

DocInit ==
  /\ contentStream = <<>>
  /\ currentColor = Rgb(Num(0), Num(0), Num(0))
  /\ currentStrokeColor = Rgb(Num(0), Num(0), Num(0))
  /\ currentLineWidth = Num(Scale)
  /\ currentOpacity = [fill |-> Num(Scale), stroke |-> Num(Scale)]
  /\ spotColors = [n \in {} |-> NoSpot]
  /\ ColorSpace = <<>>
  /\ ExtGState = <<>>
  /\ ctm = Identity
  /\ ctmStack = <<>>
  /\ objectCount = 0
  /\ objects = <<>>
  /\ xref = <<>>
  /\ pdf = <<>>
  /\ calls = 0
  /\ paintLog = {}

PathIdle ==
  /\ pathData = <<>>
  /\ currentIndex = 0
  /\ pc = "idle"
  /\ command = ""
  /\ args = <<>>
  /\ processed = <<>>
  /\ skipped = <<>>
  /\ commands = <<>>
  /\ currentX = Num(0)
  /\ currentY = Num(0)
  /\ startX = Num(0)
  /\ startY = Num(0)
  /\ lastCommand = ""
  /\ lastControlX = Num(0)
  /\ lastControlY = Num(0)

RenderIdle ==
  /\ options = [colorCallback |-> "none", spotColorMap |-> FALSE, useCMYK |-> FALSE]
  /\ threw = FALSE
  /\ elements = <<>>
  /\ styles = <<>>

ParserIdle ==
  /\ svgString = <<>>
  /\ frames = <<>>
  /\ root = <<>>
  /\ parserPc = "idle"

WalkIdle ==
  /\ pending = <<>>
  /\ before = [length |-> 0, ctm |-> Identity, depth |-> 0, root |-> FALSE]
  /\ trail = <<>>

Init == DocInit /\ PathIdle /\ RenderIdle /\ ParserIdle /\ WalkIdle

---------------------------------------------------------------------------
(* The document driven through its whole API, with a few arguments each *)

FillRules == {"nonzero", "evenodd"}
Opacities == {Num(500), Num(Scale)}
Fallback == <<Num(100 * Scale), Num(50 * Scale), Num(0), Num(0)>>
LabFallback == <<Num(53 * Scale), Num(80 * Scale), Num(67 * Scale)>>

PathOps ==
  \/ moveTo(Num(10 * Scale), Num(20 * Scale))
  \/ lineTo(Num(30 * Scale), Num(20 * Scale))
  \/ bezierCurveTo(Num(0), Num(0), Num(5 * Scale), Num(5 * Scale),
                   Num(10 * Scale), Num(1500))
  \/ closePath
  \/ rect(Num(10 * Scale), Num(10 * Scale), Num(80 * Scale), Num(40 * Scale))

GStateOps ==
  \/ save
  \/ restore
  \/ transform(Num(Scale), Num(0), Num(0), Num(Scale), Num(5 * Scale), Num(7 * Scale))
  \/ transform(Num(2 * Scale), Num(0), Num(0), Num(2 * Scale), Num(0), Num(0))

PaintOps ==
  \/ \E fillRule \in FillRules : fill(fillRule)
  \/ stroke
  \/ \E fillRule \in FillRules : fillAndStroke(fillRule)

StyleOps ==
  \/ lineWidth(Num(2 * Scale))
  \/ \E o \in Opacities : fillOpacity(o)
  \/ \E o \in Opacities : strokeOpacity(o)
  \/ opacity(Num(250))

ColorOps ==
  \/ fillColor(Num(255 * Scale), Num(0), Num(0))
  \/ strokeColor(Str("#00ff00"), Undef, Undef)
  \/ fillColorCMYK(Num(0), Num(0), Num(0), Num(100 * Scale))
  \/ strokeColorCMYK(Num(150 * Scale), Num(0), Num(0), Num(0))
  \/ fillColorLab(Num(53 * Scale), Num(80 * Scale), Num(67 * Scale))
  \/ strokeColorLab(Num(120 * Scale), Num(0), Num(0 - 200 * Scale))

SpotOps ==
  \/ \E name \in Names : defineSpotColor(name, Fallback)
  \/ \E name \in Names : defineLabSpotColor(name, LabFallback)
  \/ \E name \in Names : fillSpotColor(name, Num(500))
  \/ strokeSpotColor("ink", Num(Scale))

Next ==
  /\ UNCHANGED walkVars
  /\ calls < MaxCalls
  /\ (PathOps \/ GStateOps \/ PaintOps \/ StyleOps \/ ColorOps \/ SpotOps \/ end)

Spec == Init /\ [][Next]_vars

---------------------------------------------------------------------------
(* The drawing API called with numbers that may be invalid *)

NumVals == {Num(1500), NaN, PosInf, NegInf, Undef, Str("abc")}

NumNext ==
  /\ UNCHANGED walkVars
  /\ calls < MaxNumCalls
  /\ \/ \E v \in NumVals : moveTo(v, Num(50 * Scale))
     \/ \E v \in NumVals : lineTo(Num(100 * Scale), v)
     \/ \E v \in NumVals : bezierCurveTo(Num(0), Num(0), Num(50 * Scale),
                                         Num(50 * Scale), Num(100 * Scale), v)
     \/ \E v \in NumVals : rect(Num(10 * Scale), Num(10 * Scale), v, Num(50 * Scale))
     \/ \E v \in NumVals : transform(Num(Scale), Num(0), Num(0), Num(Scale), v, Num(0))
     \/ \E v \in NumVals : lineWidth(v)
     \/ \E v \in NumVals : fillOpacity(v)
     \/ \E v \in NumVals : strokeOpacity(v)
     \/ \E v \in NumVals : fillColor(v, Num(0), Num(255 * Scale))
     \/ \E v \in NumVals : strokeColorCMYK(Num(0), v, Num(0), Num(0))
     \/ \E v \in NumVals : fillColorLab(Num(50 * Scale), v, Num(0))
     \/ fill("nonzero")
     \/ stroke
     \/ fillAndStroke("evenodd")

NumSpec == Init /\ [][NumNext]_vars

---------------------------------------------------------------------------
(* Documents that register colour-space and opacity resources, then end *)

\* end() leaves the document as it was, so the calls that build the document
\* are made before the first end()
ResNext ==
  /\ UNCHANGED walkVars
  /\ calls < MaxResCalls
  /\ \/ pdf = <<>> /\ \E name \in Names : defineSpotColor(name, Fallback)
     \/ pdf = <<>> /\ defineLabSpotColor("eu", LabFallback)
     \/ pdf = <<>> /\ fillColorLab(Num(53 * Scale), Num(80 * Scale), Num(67 * Scale))
     \/ pdf = <<>> /\ fillOpacity(Num(500))
     \/ pdf = <<>> /\ fill("nonzero")
     \/ end

ResSpec == Init /\ [][ResNext]_vars

---------------------------------------------------------------------------
(* The CTM driven by transform calls with integer matrices: scalings,      *)
(* shears, reflections and translations, most pairs of which do not        *)
(* commute                                                                 *)

Mats ==
  {<<Num(a * Scale), Num(b * Scale), Num(c * Scale), Num(d * Scale),
     Num(e * Scale), Num(f * Scale)>> :
     a \in {1, 2}, b \in {0, 1}, c \in {0, -1}, d \in {1, -1},
     e \in {0, 3}, f \in {-2}}

MatNext ==
  /\ UNCHANGED walkVars
  /\ calls < MaxMatCalls
  /\ \E m \in Mats : transform(m[1], m[2], m[3], m[4], m[5], m[6])

MatSpec == Init /\ [][MatNext]_vars

---------------------------------------------------------------------------
(* SVGPath.parse run on every short string over a few characters: two      *)
(* command letters, a digit, the sign, the decimal point, the comma, the   *)
(* space and a character that is none of these                             *)

PathChars == {"M", "Z", "1", "-", ".", ",", " ", "x"}
PathStrings == UNION {[1..n -> PathChars] : n \in 0..MaxPathLen}

PathNext ==
  \/ UNCHANGED walkVars /\ pc = "idle" /\ \E d \in PathStrings : parse(d)
  \/ UNCHANGED walkVars /\ ReadCommand
  \/ UNCHANGED walkVars /\ ReadNumber

PathSpec == Init /\ [][PathNext]_vars

---------------------------------------------------------------------------
(* The interpreter driven by processCommand calls, as the scanner makes    *)
(* them: a letter with at least one number, or Z.  The numbers after a     *)
(* letter are the first n of 1, 2, -3, 4, 5, -6, ...: complete groups, or  *)
(* complete groups and one group that lacks its last number.  The arcs     *)
(* are arcs of a circle of radius 2 or of an ellipse of radii 2 and 1      *)
(* whose end lies a quarter, a half or three quarters of a turn from its   *)
(* start, and arcs with a zero radius.  The last call of a run is any of   *)
(* these, the calls before it set up each kind of preceding command.       *)

PoolNumber(j) == Num((IF j % 3 = 0 THEN -j ELSE j) * Scale)
PoolArgs(n) == [j \in 1..n |-> PoolNumber(j)]

ArgCounts(type) ==
  {k * Arity(type) : k \in 1..MaxGroups}
    \cup ({k * Arity(type) - 1 : k \in 1..MaxGroups} \ {0})

Ints(seq) == [j \in 1..Len(seq) |-> Num(seq[j] * Scale)]

Flags == {<<0, 0>>, <<0, 1>>, <<1, 0>>, <<1, 1>>}
Chords == {<<4, 0>>, <<2, 2>>, <<0, -8>>}

\* <<rx, ry, xAxisRotation, largeArcFlag, sweepFlag, dx, dy>>
Arcs ==
  {Ints(<<2, 2, 0, fl[1], fl[2], ch[1], ch[2]>>) : fl \in Flags, ch \in Chords}
    \cup {Ints(<<2, 1, 0, fl[1], fl[2], 2, 1>>) : fl \in {<<0, 1>>, <<1, 0>>}}
    \cup {Ints(<<2, 1, 90, fl[1], fl[2], -1, 2>>) : fl \in {<<0, 0>>, <<1, 1>>}}
    \cup {Ints(<<2, 2, 0, 0, 1, 0, 0>>),
          Ints(<<0, 2, 0, 0, 1, 3, 4>>), Ints(<<2, 0, 0, 1, 0, 3, 4>>)}

\* the same arc with its end given from the cursor
FromCursor(arc) ==
  [arc EXCEPT ![6] = JsAdd(currentX, @), ![7] = JsAdd(currentY, @)]

ArcGroups ==
  Arcs \cup {Ints(<<2, 2, 0, 0, 1, 4, 0>>) \o b : b \in
               {Ints(<<2, 2, 0, 0, 0, 2, 2>>), Ints(<<0, 2, 0, 0, 0, 1, 1>>),
                Ints(<<2, 2, 0, 0, 0, 2>>)}}
       \cup {Ints(<<2, 2, 0, 0, 1, 4>>)}

\* the calls before the last one of a run: one of each kind of command, a
\* move with an implicit line, and a line that lacks its last number
Preceding ==
  {<<type, PoolArgs(Arity(type))>> : type \in {"M", "L", "C", "S", "Q", "T"}}
    \cup {<<"m", PoolArgs(4)>>, <<"l", PoolArgs(1)>>, <<"Z", <<>> >>,
          <<"a", Ints(<<2, 2, 0, 0, 1, 4, 0>>)>>, <<"a", Ints(<<0, 2, 0, 0, 1, 3, 4>>)>>}

CmdNext ==
  /\ UNCHANGED walkVars
  /\ Len(processed) < MaxCmdCalls
  /\ IF Len(processed) + 1 < MaxCmdCalls
     THEN \E c \in Preceding : processCommand(c[1], c[2])
     ELSE \/ \E type \in CommandLetters \ {"A", "a", "Z", "z"} :
               \E n \in ArgCounts(type) : processCommand(type, PoolArgs(n))
          \/ \E type \in {"Z", "z"} : processCommand(type, <<>>)
          \/ \E a \in ArcGroups : processCommand("a", a)
          \/ \E a \in Arcs : processCommand("A", FromCursor(a))

CmdSpec == Init /\ [][CmdNext]_vars

---------------------------------------------------------------------------
(* SVGParser.parse run on every markup made of a few tags, closed or not,  *)
(* and blanks                                                              *)

SvgTokens ==
  {<<"<", "g", ">">>, <<"<", "/", "g", ">">>, <<"<", "r", "/", ">">>,
   <<"<", "r", ">">>, <<"<", "/", "r", ">">>, <<"<", "G", "/", ">">>, <<" ">>}

RECURSIVE Concat(_)
Concat(tokens) == IF tokens = <<>> THEN <<>> ELSE Head(tokens) \o Concat(Tail(tokens))

SvgStrings == {Concat(ts) : ts \in UNION {[1..n -> SvgTokens] : n \in 0..MaxTokens}}

SvgNext ==
  \/ UNCHANGED walkVars /\ parserPc = "idle" /\ \E str \in SvgStrings : svgParse(str)
  \/ UNCHANGED walkVars /\ parseChildren
  \/ UNCHANGED walkVars /\ findClosingTag

SvgSpec == Init /\ [][SvgNext]_vars

---------------------------------------------------------------------------
(* The renderer's colour resolution under every configuration of the       *)
(* options, on a document with or without the spot colours defined         *)

Callbacks == {"none", "remap", "cmyk", "lab"}
RenderOptions == [colorCallback : Callbacks, spotColorMap : BOOLEAN, useCMYK : BOOLEAN]
RenderTokens == {"red", "white", "other"}
Roles == {"fill", "stroke"}

ColorInit ==
  /\ DocInit
  /\ PathIdle
  /\ options \in RenderOptions
  /\ threw = FALSE
  /\ elements = <<>>
  /\ styles = <<>>
  /\ ParserIdle
  /\ WalkIdle

ColorNext ==
  /\ UNCHANGED walkVars
  /\ calls < MaxColorCalls
  /\ ~threw
  /\ \/ \E name \in Names : defineSpotColor(name, Fallback)
     \/ \E color \in RenderTokens, type \in Roles : applyColor(color, type)
     \/ fill("nonzero")
     \/ stroke

ColorSpec == ColorInit /\ [][ColorNext]_vars

---------------------------------------------------------------------------
(* Nested elements rendered with every combination of opacity attributes   *)

OpacityAttrs == {Undef, Num(500), Num(200)}
ChannelAttrs == {Undef, Num(500)}
StyledElements ==
  {createElement("g", [NoAttributes EXCEPT !.opacity = o, !.fillOpacity = f,
                                            !.strokeOpacity = s]) :
     o \in OpacityAttrs, f \in ChannelAttrs, s \in ChannelAttrs}

StyleNext ==
  \/ \E element \in StyledElements : renderElement(element)
  \/ childrenDone
  \/ renderReturn

StyleSpec == Init /\ [][StyleNext]_vars

---------------------------------------------------------------------------
(* addSVG on trees of groups, rectangles and lines, with and without       *)
(* transform, paint and opacity attributes, under the renderer's options   *)

With(name, value) == [NoAttributes EXCEPT ![name] = value]

Markups ==
  {<<>>,
   <<createElement("svg", NoAttributes)>>,
   <<createElement("svg", With("height", Num(50 * Scale)))>>,
   <<createElement("svg", With("transform", Fn("translate", 5 * Scale)))>>}

ChildElements ==
  {createElement("g", With("transform", Fn("scale", 2 * Scale))),
   createElement("g", With("opacity", Num(500))),
   createElement("rect", NoAttributes),
   createElement("rect", With("fill", Str("none"))),
   createElement("rect", With("fill", Str("red"))),
   createElement("rect", [NoAttributes EXCEPT !.fillOpacity = Num(500),
                                             !.stroke = Str("red")]),
   createElement("line", NoAttributes),
   createElement("line", [NoAttributes EXCEPT !.stroke = Str("red"),
                                             !.strokeOpacity = Num(500)])}

RenderInit ==
  /\ DocInit
  /\ PathIdle
  /\ options \in {o \in RenderOptions :
                    ~o.spotColorMap /\ o.colorCallback \in {"none", "cmyk"}}
  /\ threw = FALSE
  /\ elements = <<>>
  /\ styles = <<>>
  /\ ParserIdle
  /\ WalkIdle

RenderNext ==
  \/ calls < MaxRenderCalls /\ ~threw
       /\ \E svg \in Markups : SVGtoPDF(svg, Num(10 * Scale), Num(20 * Scale))
  \/ ~threw /\ DocCall
  \/ ~threw /\ At("renderElement") /\ renderElement(NextStep.a[1])
  \/ calls < MaxRenderCalls /\ ~threw /\ At("children")
       /\ \E child \in ChildElements : renderElement(child)
  \/ ~threw /\ childrenDone
  \/ ~threw /\ renderReturn

RenderSpec == RenderInit /\ [][RenderNext]_vars

---------------------------------------------------------------------------
(* Spot colours defined and redefined between paints with direct Lab       *)
(* colours                                                                 *)

SpaceNext ==
  /\ UNCHANGED walkVars
  /\ calls < MaxSpaceCalls
  /\ \/ \E name \in Names : defineSpotColor(name, Fallback)
     \/ defineLabSpotColor("eu", LabFallback)
     \/ fillColorLab(Num(53 * Scale), Num(80 * Scale), Num(67 * Scale))
     \/ strokeColorLab(Num(53 * Scale), Num(80 * Scale), Num(67 * Scale))
     \/ fill("nonzero")
     \/ stroke
     \/ fillAndStroke("nonzero")

SpaceSpec == Init /\ [][SpaceNext]_vars

---------------------------------------------------------------------------
(* Properties of the content stream *)

ColourOperators == {"rg", "RG", "k", "K", "cs", "CS", "scn", "SCN"}
PaintOperators == {"f", "f*", "S", "B", "B*"}
FillPaints == {"f", "f*", "B", "B*"}
StrokePaints == {"S", "B", "B*"}

\* v < 1 for an opacity v
BelowOne(v) == (v.k = "num" /\ v.v < Scale) \/ v.k = "ninf"

CountWhere(seq, Test(_)) == Cardinality({i \in 1..Len(seq) : Test(seq[i])})

\* a block is: colour operators (at least one), then one gs per relevant
\* opacity below 1, then w for the stroking paints, then the paint operator
WellFormedBlock(block, opac) ==
  LET n == Len(block)
      paintOp == block[n].op
      nW == IF paintOp \in StrokePaints THEN 1 ELSE 0
      nGs == (IF paintOp \in FillPaints /\ BelowOne(opac.fill) THEN 1 ELSE 0)
               + (IF paintOp \in StrokePaints /\ BelowOne(opac.stroke) THEN 1 ELSE 0)
      nCol == n - 1 - nW - nGs
  IN /\ nCol >= 1
     /\ \A i \in 1..nCol : block[i].op \in ColourOperators
     /\ \A i \in 1..nCol :
          block[i].op \in {"cs", "CS"} => i < nCol /\ block[i + 1].op \in {"scn", "SCN"}
     /\ \A i \in (nCol + 1)..(nCol + nGs) : block[i].op = "gs"
     /\ nW = 1 => block[n - 1].op = "w"
     /\ paintOp \in PaintOperators

AppendedBlock == SubSeq(contentStream', Len(contentStream) + 1, Len(contentStream'))

PaintStep ==
  /\ Len(contentStream') > Len(contentStream)
  /\ contentStream'[Len(contentStream')].op \in PaintOperators

ColourReachesPaint ==
  \A i \in 1..Len(contentStream) :
    contentStream[i].op \in ColourOperators =>
      \E j \in (i + 1)..Len(contentStream) :
        /\ contentStream[j].op \in PaintOperators
        /\ \A m \in (i + 1)..(j - 1) :
             contentStream[m].op \in ColourOperators \cup {"gs", "w"}

\* C3: every fill, stroke or fillAndStroke call appends one contiguous block
\* made of the colour-setting operators, then a gs for each relevant opacity
\* below 1, then w (stroking paints only), then exactly one paint operator;
\* so in every content stream each colour-setting operator is followed by a
\* paint operator with no path-construction, cm, q or Q operator in between.
C3_PaintBlock ==
  /\ [][PaintStep =>
          /\ SubSeq(contentStream', 1, Len(contentStream)) = contentStream
          /\ WellFormedBlock(AppendedBlock, currentOpacity)]_vars
  /\ []ColourReachesPaint

\* a fill with a named colour space and an opacity below 1 was painted
C3_Witness ==
  /\ Len(contentStream) >= 4
  /\ LET n == Len(contentStream)
     IN <<contentStream[n - 3].op, contentStream[n - 2].op,
          contentStream[n - 1].op, contentStream[n].op>> = <<"cs", "scn", "gs", "f">>

\* an operand that is written as a finite number or as a resource name free
\* of NaN, Infinity and undefined
CleanOperand(x) ==
  \/ x.k = "num"
  \/ x.k = "csname"
  \/ x.k = "gsname" /\ x.val.k = "num"

\* C4: whatever invalid numbers the drawing calls are given, no operator line
\* of the content stream holds the token NaN, Infinity or undefined.
C4_NoInvalidToken ==
  \A i \in 1..Len(contentStream) :
    \A j \in 1..Len(contentStream[i].args) : CleanOperand(contentStream[i].args[j])

---------------------------------------------------------------------------
(* Properties of the resources *)

\* the first entry of resources.ColorSpace registered for a spot-colour name
FirstEntryFor(name) ==
  CHOOSE i \in 1..Len(ColorSpace) :
    ColorSpace[i].name = name /\ \A j \in 1..(i - 1) : ColorSpace[j].name # name

\* C9: spot-colour registration is idempotent per name: defining a name that
\* is already defined adds no entry to resources.ColorSpace (a name has at
\* most one entry), and the resource name a spot colour paints with is the
\* one its first definition registered.
C9_Idempotent ==
  /\ \A i, j \in 1..Len(ColorSpace) :
       (ColorSpace[i].name # "" /\ ColorSpace[i].name = ColorSpace[j].name) => i = j
  /\ \A name \in DOMAIN spotColors :
       spotColors[name].resourceName = ColorSpace[FirstEntryFor(name)].key

\* C10: resources.ExtGState holds exactly one entry for each (role, value)
\* with value < 1 that a paint call of that role used, and no other entry; a
\* paint call whose opacity is 1 registers nothing and emits no gs.
C10_OpacityDedup ==
  LET painted == {p \in paintLog : BelowOne(p.val)}
      IsFor(e, p) == e.key.role = p.role /\ e.key.val = p.val
  IN /\ \A p \in painted :
          Cardinality({i \in 1..Len(ExtGState) : IsFor(ExtGState[i], p)}) = 1
     /\ \A i \in 1..Len(ExtGState) : \E p \in painted : IsFor(ExtGState[i], p)
     /\ painted = {} => \A i \in 1..Len(contentStream) : contentStream[i].op # "gs"

\* two fills were painted with the same fractional opacity
C10_Witness ==
  /\ Len(ExtGState) = 1
  /\ Cardinality({i \in 1..Len(contentStream) : contentStream[i].op = "gs"}) = 2
  /\ Cardinality({i \in 1..Len(contentStream) : contentStream[i].op \in {"f", "f*"}}) = 2

---------------------------------------------------------------------------
(* Properties of the serialized document *)

\* the byte index in the returned buffer at which piece k begins
ByteIndex(k) == RangeLen(pdf, 1, k - 1)

\* the in-use cross-reference lines of the buffer, in order
IsXrefLine(p) == p.t = "xrefline"
XrefLines == SelectSeq(pdf, IsXrefLine)

\* C1: in the buffer end() returns, the i-th in-use xref line holds the byte
\* index at which `i 0 obj` begins, for every i in 1..objectCount, and the
\* number after startxref is the byte index at which `xref` begins.
C1_XrefOffsets ==
  pdf # <<>> =>
    \A lines \in {XrefLines} :
       /\ Len(lines) = objectCount
       /\ \A i \in 1..objectCount :
            \E k \in 1..Len(pdf) :
              /\ pdf[k] = ObjHdr(i)
              /\ lines[i].n = ByteIndex(k)
       /\ \E k \in 1..Len(pdf) :
            /\ pdf[k].t = "xrefkw"
            /\ \E m \in 1..Len(pdf) :
                 pdf[m].t = "startxref" /\ pdf[m].n = ByteIndex(k)

\* a document with a spot colour whose name has non-ASCII characters and a
\* painted content stream was serialized
C1_Witness ==
  /\ pdf # <<>>
  /\ \E i \in 1..Len(ColorSpace) : ColorSpace[i].name = "eu"
  /\ Len(contentStream) > 0
  /\ \E k \in 1..Len(pdf) : pdf[k].t = "chars" /\ \E j \in 1..Len(pdf[k].c) : pdf[k].c[j] > 127

\* the references `n 0 R` written in a string
RefsIn(str) == {str[k].n : k \in {m \in 1..Len(str) : str[m].t = "ref"}}

\* C2: after generatePDF every reference `n 0 R` of an object body or of the
\* trailer names an n in 1..objectCount whose body is not null and which is
\* written as `n 0 obj`; no allocated reference is left with a null body.
C2_ReferencesResolve ==
  pdf # <<>> =>
    /\ Len(objects) = objectCount
    /\ \A n \in 1..objectCount : objects[n] # Null
    /\ \A n \in RefsIn(pdf) :
         /\ n \in 1..objectCount
         /\ objects[n] # Null
         /\ \E k \in 1..Len(pdf) : pdf[k] = ObjHdr(n)

\* a document with a Lab spot colour, the generic Lab space and an opacity
\* resource was serialized
C2_Witness ==
  /\ pdf # <<>>
  /\ \E i \in 1..Len(ColorSpace) : ColorSpace[i].type = "Lab" /\ ColorSpace[i].name # ""
  /\ \E i \in 1..Len(ColorSpace) : IsGenericLab(ColorSpace[i])
  /\ Len(ExtGState) > 0
  /\ RefsIn(pdf) = 1..objectCount

---------------------------------------------------------------------------
(* Properties of the path scanner *)

\* C5: SVGPath.parse terminates on every path-data string: the scanner is
\* deterministic, so it ends only if no pass through the body of the number
\* loop leaves it where it was; a pass either leaves the loop, or consumes
\* a character, or reads an argument.
C5_ParseTerminates ==
  (pc = "inner" /\ currentIndex < Len(pathData)) =>
    \A r \in {NumberIteration(pathData, currentIndex, args)} :
      r.brk \/ r.index > currentIndex \/ Len(r.args) > Len(args)

---------------------------------------------------------------------------
(* Properties of the colour resolution *)

\* the active colour of a paint role
RoleColor(type) == IF type = "fill" THEN currentColor ELSE currentStrokeColor
RoleColorAfter(type) == IF type = "fill" THEN currentColor' ELSE currentStrokeColor'

\* what the claimed order of resolution yields for token t: t2 is the
\* callback's result if it is truthy, else t
ResolvedInOrder(t, type) ==
  LET result == CallbackResult(options.colorCallback, t)
      t2 == IF options.colorCallback # "none" /\ result # Undef
            THEN result ELSE Str(t)
  IN IF options.spotColorMap /\ t2.k = "str" /\ t2.s \in SpotColorMapKeys
     THEN IF SpotInfo(t2.s).name \in DOMAIN spotColors
          THEN /\ RoleColorAfter(type).type = "spot"
               /\ RoleColorAfter(type).spot.name = SpotInfo(t2.s).name
          ELSE RoleColorAfter(type) = RoleColor(type)
     ELSE IF options.useCMYK THEN RoleColorAfter(type).type = "cmyk"
     ELSE RoleColorAfter(type).type = "rgb"

\* C6: applyColor resolves a colour first-match-wins in the order callback,
\* spot map, CMYK, RGB: with t2 the callback's result when it is truthy and
\* the raw token otherwise, a spot map holding t2 sets the role through
\* fillSpotColor / strokeSpotColor, otherwise useCMYK makes the active colour
\* a CMYK colour, otherwise it becomes an RGB colour.
C6_FirstMatchWins ==
  [][\A t \in RenderTokens, type \in Roles :
       applyColor(t, type) => ResolvedInOrder(t, type)]_vars

\* C7: when the callback returns a structured {c,m,y,k} object the call does
\* not throw and the role's colour is that CMYK colour, whether or not
\* useCMYK is set; when it returns a {type:"lab"} object the role's colour is
\* that Lab colour.
C7_StructuredColour ==
  [][\A t \in RenderTokens, type \in Roles :
       applyColor(t, type) =>
         /\ (options.colorCallback # "none"
               /\ CallbackResult(options.colorCallback, t) = CmykObj) =>
              /\ ~threw'
              /\ RoleColorAfter(type)
                   = CmykOf(CmykObjValue[1], CmykObjValue[2], CmykObjValue[3],
                            CmykObjValue[4])
         /\ (options.colorCallback # "none"
               /\ CallbackResult(options.colorCallback, t) = LabObj) =>
              /\ ~threw'
              /\ RoleColorAfter(type)
                   = LabOf(LabObjValue[1], LabObjValue[2], LabObjValue[3])]_vars

---------------------------------------------------------------------------
(* Properties of style inheritance *)

SetsNoOpacity(element) ==
  /\ getAttribute(element, "opacity") = Undef
  /\ getAttribute(element, "fillOpacity") = Undef
  /\ getAttribute(element, "strokeOpacity") = Undef

\* C8: an element's opacity is applied exactly once: for a node N with an
\* opacity attribute and a descendant D such that neither D nor any node
\* between N and D sets opacity, fill-opacity or stroke-opacity, the computed
\* fill-opacity and stroke-opacity of D equal those computed for N.
C8_OpacityOnce ==
  \A n, d \in 1..Len(elements) :
    (/\ n < d
     /\ getAttribute(elements[n], "opacity") # Undef
     /\ \A m \in (n + 1)..d : SetsNoOpacity(elements[m])) =>
      /\ styles[d].fillOpacity = styles[n].fillOpacity
      /\ styles[d].strokeOpacity = styles[n].strokeOpacity

---------------------------------------------------------------------------
(* Properties of the graphics-state stack *)

\* every save pushes "q" and every restore pushes "Q", and nothing else
\* does, so the content stream is the record of the save / restore calls:
\* the saves of lines[i..] not matched by a later restore, starting from
\* depth unmatched ones; a restore met at depth 0 matches nothing
RECURSIVE UnmatchedSaves(_, _, _)
UnmatchedSaves(lines, i, depth) ==
  IF i > Len(lines) THEN depth
  ELSE UnmatchedSaves(lines, i + 1,
         IF lines[i].op = "q" THEN depth + 1
         ELSE IF lines[i].op = "Q" /\ depth > 0 THEN depth - 1
         ELSE depth)

SaveMarker == Line("q", <<>>)
RestoreMarker == Line("Q", <<>>)

\* C11: in every reachable state the length of _ctmStack is the number of
\* save calls not yet matched by a restore (a restore on the empty stack
\* matches nothing), and a step that changes the depth is a save, which adds
\* one, or a restore, which removes one.
C11_StackDepth ==
  /\ [](Len(ctmStack) = UnmatchedSaves(contentStream, 1, 0))
  /\ [][Len(ctmStack') # Len(ctmStack) =>
          \/ /\ save
             /\ Len(ctmStack') = Len(ctmStack) + 1
          \/ /\ restore
             /\ Len(ctmStack') = Len(ctmStack) - 1]_vars

\* a restore on the empty stack, then a save that is still open
C11_Witness ==
  /\ Len(contentStream) >= 2
  /\ contentStream[1] = RestoreMarker
  /\ contentStream[Len(contentStream)] = SaveMarker
  /\ Len(ctmStack) = 1

\* C12: restore on an empty transform stack is not an error: nothing is
\* thrown, the CTM and the empty stack stay as they are, and exactly one "Q"
\* is appended to the content stream.
C12_RestoreOnEmpty ==
  [][(ctmStack = <<>> /\ restore) =>
       /\ ~threw'
       /\ ctm' = ctm
       /\ ctmStack' = <<>>
       /\ contentStream' = Append(contentStream, RestoreMarker)]_vars

\* a transform, then a restore with nothing saved: the moved CTM is kept
C12_Witness ==
  /\ Len(contentStream) = 2
  /\ contentStream[1].op = "cm"
  /\ contentStream[2] = RestoreMarker
  /\ ctmStack = <<>>
  /\ ctm # Identity


---------------------------------------------------------------------------
(* Properties of the CTM *)

\* the product x . y of two affine matrices in the row-vector form
\* [[a,b,0],[c,d,0],[e,f,1]], on numbers in thousandths
Times(x, y) == (x.v * y.v) \div Scale
MatMul(x, y) ==
  <<Num(Times(x[1], y[1]) + Times(x[2], y[3])),
    Num(Times(x[1], y[2]) + Times(x[2], y[4])),
    Num(Times(x[3], y[1]) + Times(x[4], y[3])),
    Num(Times(x[3], y[2]) + Times(x[4], y[4])),
    Num(Times(x[5], y[1]) + Times(x[6], y[3]) + y[5].v),
    Num(Times(x[5], y[2]) + Times(x[6], y[4]) + y[6].v)>>

\* transform(A) is the step taken; the CTM after a following transform(B) is
\* compared with the CTM a single transform(P) gives from the starting CTM
TransformsAs(P(_, _)) ==
  \A A \in Mats :
    transform(A[1], A[2], A[3], A[4], A[5], A[6]) =>
      \A B \in Mats : Compose(B, ctm') = Compose(P(A, B), ctm)

ProductAB(A, B) == MatMul(A, B)
ProductBA(A, B) == MatMul(B, A)

\* C13 as stated: from any starting CTM, the CTM after transform(A) followed
\* by transform(B) equals the CTM after the single transform(P) with P the
\* product A.B, A on the left.
C13_ComposeAB == [][TransformsAs(ProductAB)]_vars

\* C13, amended: from any starting CTM, the CTM after transform(A) followed
\* by transform(B) equals the CTM after the single transform(P) with P the
\* product B.A: each new matrix is multiplied on the left of the CTM, so the
\* later matrix B stands on the left of A.
C13_ComposeBA == [][TransformsAs(ProductBA)]_vars

\* two transforms that do not commute have been applied
C13_Witness ==
  /\ Len(contentStream) = 2
  /\ \E A, B \in Mats :
       /\ MatMul(A, B) # MatMul(B, A)
       /\ contentStream[1].args = A
       /\ contentStream[2].args = B
       /\ ctm = MatMul(B, A)


---------------------------------------------------------------------------
(* Properties of repeated serialization *)

\* a step of end(): the only method that leaves objects in the writer
EndStep == objects' # <<>> /\ end

\* C14: repeated serialization is stable.  generatePDF starts from an empty
\* writer, so an end() that follows an end() with no drawing in between
\* allocates the same number of objects, gives every object the same
\* reference and body and the same offsets, and returns the same bytes; and
\* every end() leaves the content stream, the resources, the spot colours,
\* the active colours, opacity and line width, the CTM and its stack as they
\* were.
C14_StableSerialization ==
  [][EndStep =>
       /\ UNCHANGED docVars
       /\ (pdf # <<>> => UNCHANGED writerVars)]_vars

\* defineSpotColor, end(), end(): the second pass over one colour space
C14_Witness ==
  /\ calls = 3
  /\ pdf # <<>>
  /\ Len(ColorSpace) = 1
  /\ ExtGState = <<>>
  /\ contentStream = <<>>
  /\ currentColor = Rgb(Num(0), Num(0), Num(0))
  /\ currentOpacity.fill = Num(Scale)
  /\ objectCount > 6


---------------------------------------------------------------------------
(* Properties of the content stream *)

IsPrefix(s, t) == Len(s) <= Len(t) /\ SubSeq(t, 1, Len(s)) = s

\* the content stream object written by the last end() holds the first n
\* operators of the content stream
SerializedUpTo(n) ==
  \E i \in 1..Len(objects[4]) :
    objects[4][i] = Chars(Deflate(SubSeq(contentStream, 1, n)))

---------------------------------------------------------------------------
(* Properties of object allocation *)

IsObjHdr(p) == p.t = "hdr"

\* the dictionary written in body has the entry /key val
HasEntry(body, key, val) ==
  \E i \in 1..Len(body) :
    /\ body[i] = Lit("  /" \o key \o " ")
    /\ SubSeq(body, i + 1, i + Len(val)) = val

\* the trailer of the buffer gives /Size and /Root
TrailerNames(size, rootRef) ==
  \E k \in 1..(Len(pdf) - 3) :
    /\ pdf[k] = Lit("<< /Size ")
    /\ pdf[k + 1] = IntStr(size)
    /\ pdf[k + 2] = Lit(" /Root ")
    /\ pdf[k + 3] = Ref(rootRef)

\* C16: within one serialization pass the references handed out are
\* 1, 2, 3, ... without gap or repeat, so the objects written are exactly
\* `1 0 obj` .. `objectCount 0 obj`, once each and in this order; whatever
\* colour spaces and graphics states the document has, object 1 is the
\* catalog, 2 the page tree, 3 the page, 4 the content stream and 5 the
\* resources; and the trailer names /Root as the catalog's reference and
\* /Size as objectCount + 1.
C16_Allocation ==
  pdf # <<>> =>
    /\ Len(objects) = objectCount
    /\ SelectSeq(pdf, IsObjHdr) = [i \in 1..objectCount |-> ObjHdr(i)]
    /\ HasEntry(objects[1], "Type", <<Lit("/Catalog")>>)
    /\ HasEntry(objects[1], "Pages", <<Ref(2)>>)
    /\ HasEntry(objects[2], "Type", <<Lit("/Pages")>>)
    /\ HasEntry(objects[2], "Kids", <<Lit("["), Ref(3), Lit("]")>>)
    /\ HasEntry(objects[3], "Type", <<Lit("/Page")>>)
    /\ HasEntry(objects[3], "Contents", <<Ref(4)>>)
    /\ HasEntry(objects[3], "Resources", <<Ref(5)>>)
    /\ HasEntry(objects[4], "Filter", <<Lit("/FlateDecode")>>)
    /\ (ColorSpace # <<>>) = (\E v \in {objects[5]} : \E i \in 1..Len(v) : v[i] = Lit("  /ColorSpace "))
    /\ TrailerNames(objectCount + 1, 1)

\* a document with a Separation colour space and an opacity resource was
\* serialized: objects beyond the six structural ones were allocated
C16_Witness ==
  /\ pdf # <<>>
  /\ \E i \in 1..Len(ColorSpace) : ColorSpace[i].type = "Separation"
  /\ Len(ExtGState) > 0
  /\ objectCount > 8


---------------------------------------------------------------------------
(* Properties of the active colours *)

Within(lo, hi, x) == x.k = "num" /\ lo <= x.v /\ x.v <= hi

LabInRange(comps) ==
  /\ Within(0, 100 * Scale, comps[1])
  /\ Within(0 - 128 * Scale, 127 * Scale, comps[2])
  /\ Within(0 - 128 * Scale, 127 * Scale, comps[3])

ComponentsInRange(color) ==
  /\ color.type = "cmyk" => \A i \in 1..4 : Within(0, Scale, color.comps[i])
  /\ color.type = "lab" => LabInRange(color.comps)

\* C17: in every reachable state the components of the active fill colour
\* and of the active stroke colour lie in their valid ranges, CMYK
\* components in [0,1], Lab L in [0,100] and a, b in [-128,127], and so does
\* the Lab fallback of every Lab spot colour: an out-of-range argument is
\* clamped when the colour is constructed.
C17_ComponentsInRange ==
  /\ ComponentsInRange(currentColor)
  /\ ComponentsInRange(currentStrokeColor)
  /\ \A name \in DOMAIN spotColors :
       spotColors[name].kind = "lab" => LabInRange(spotColors[name].fallback)


---------------------------------------------------------------------------
(* Properties of the spot colour map *)

\* the tint an entry of the map asks for: its tint field, 1 without one
EntryTint(spotInfo) == IF spotInfo.tint = Undef THEN Num(Scale) ELSE spotInfo.tint

\* the lines a step appended to the content stream
Appended == SubSeq(contentStream', Len(contentStream) + 1, Len(contentStream'))

\* C18: the tint of a spotColorMap entry is the tint that is painted: when
\* the (possibly remapped) token is a key of the map whose spot colour is
\* defined, the role's colour becomes that spot colour with the entry's tint
\* t, t = 0 included, and with tint 1 only when the entry has no tint field;
\* the paint that follows emits that tint as the operand of scn / SCN.
C18_TintPainted ==
  /\ [][\A t \in RenderTokens, type \in Roles :
          (/\ applyColor(t, type)
           /\ SpotHit(Remapped(t))
           /\ SpotInfo(Remapped(t).s).name \in DOMAIN spotColors) =>
            RoleColorAfter(type)
              = Spot(EntryTint(SpotInfo(Remapped(t).s)),
                     spotColors[SpotInfo(Remapped(t).s).name])]_vars
  /\ [][(currentColor.type = "spot" /\ fill("nonzero")) =>
          \E i \in 1..Len(Appended) :
            Appended[i] = Line("scn", <<currentColor.comps[1]>>)]_vars
  /\ [][(currentStrokeColor.type = "spot" /\ stroke) =>
          \E i \in 1..Len(Appended) :
            Appended[i] = Line("SCN", <<currentStrokeColor.comps[1]>>)]_vars


---------------------------------------------------------------------------
(* Properties of the spot colour calls *)

\* what a call must leave alone to be a no-op for colour purposes: nothing
\* thrown, nothing appended, the active colours, the spot colours and the
\* resources as they were, and so the lines the next paint pushes for either
\* role as they were
ColourNoOp ==
  /\ ~threw'
  /\ UNCHANGED <<contentStream, currentColor, currentStrokeColor, spotColors,
                 ColorSpace, ExtGState>>
  /\ \A type \in Roles :
       SetColorLines(ColorSpace, RoleColor(type), type)'
         = SetColorLines(ColorSpace, RoleColor(type), type)

\* C19: fillSpotColor / strokeSpotColor with a name that was never defined
\* throws nothing, appends nothing to the content stream and leaves the
\* active fill colour, the active stroke colour, spotColors and the
\* resources unchanged, so the next paint emits the colour that was active.
C19_UnknownSpotName ==
  [][\A name \in Names, tint \in {Num(500), Num(Scale)} :
       (/\ name \notin DOMAIN spotColors
        /\ fillSpotColor(name, tint) \/ strokeSpotColor(name, tint)) =>
         ColourNoOp]_vars

\* "ink" is defined and a colour is active; a spot call that names the
\* undefined "eu" has left them in place
C19_Witness ==
  /\ calls = 3
  /\ DOMAIN spotColors = {"ink"}
  /\ currentColor.type = "cmyk"
  /\ currentStrokeColor = Rgb(Num(0), Num(0), Num(0))
  /\ currentOpacity = [fill |-> Num(Scale), stroke |-> Num(Scale)]
  /\ currentLineWidth = Num(Scale)
  /\ contentStream = <<>>
  /\ Len(ColorSpace) = 1
  /\ pdf = <<>>


---------------------------------------------------------------------------
(* Properties of the markup parser *)

\* the work left, in lexicographic order: the characters the active
\* parseChildren calls have still to read, then the characters the inner
\* loop has still to search
RECURSIVE CharsLeft(_)
CharsLeft(fs) ==
  IF fs = <<>> THEN 0 ELSE Len(Head(fs).remaining) + 1 + CharsLeft(Tail(fs))

SearchLeft(fs, at) ==
  IF fs = <<>> THEN 0
  ELSE IF at = "depth" THEN Len(fs[Len(fs)].remaining) - fs[Len(fs)].pos
  ELSE Len(fs[Len(fs)].remaining) + 1

Progress ==
  \/ CharsLeft(frames') < CharsLeft(frames)
  \/ /\ CharsLeft(frames') = CharsLeft(frames)
     /\ SearchLeft(frames', parserPc') < SearchLeft(frames, parserPc)

Running == parserPc \in {"children", "depth"}

\* what parse returns for svgString: null exactly when the trimmed string
\* does not begin with an opening tag, else a node with the tag's name
RootMatches ==
  \A m \in {OpenTagMatch(Trim(svgString))} :
    IF m.matched
    THEN Len(root) = 1 /\ root[1].tagName = ToLowerCase(m.tagName)
    ELSE root = <<>>

\* the node a step hands back when it ends the parseChildren call i
Returned(i) ==
  IF i = 1 THEN root'[1]
  ELSE frames'[i - 1].children[Len(frames'[i - 1].children)]

\* no step drops a child that was parsed: a call that goes on keeps its
\* children, a call that ends, by exhaustion, by an unclosed tag or by text
\* without a tag, hands all of them back in its element
KeepsChildren ==
  \A i \in 1..Len(frames) :
    IF i <= Len(frames')
    THEN IsPrefix(frames[i].children, frames'[i].children)
    ELSE Returned(i).children = frames[i].children

LeafR == [tagName |-> <<"r">>, attributes |-> <<"/">>, children |-> <<>>]

\* <g>, n times <r/>, then stop, then </g>
MarkupWith(n, stop) ==
  <<"<", "g", ">">> \o Concat([i \in 1..n |-> <<"<", "r", "/", ">">>])
    \o stop \o <<"<", "/", "g", ">">>

\* the children found before an unclosed <r>, and before and after a stray
\* </r>, are in the tree
PartialTreeKept ==
  \A n \in 0..MaxTokens :
    /\ svgString = MarkupWith(n, <<"<", "r", ">">>) =>
         root[1].children = [i \in 1..n |-> LeafR]
    /\ svgString = MarkupWith(n, <<"<", "/", "r", ">", "<", "r", "/", ">">>) =>
         root[1].children = [i \in 1..(n + 1) |-> LeafR]

\* C20: SVGParser.parse terminates on every input string: every pass of a
\* loop of parseChildren reads on or ends the call, a running parser always
\* has a next step, and nothing in it can throw; it returns null when the
\* trimmed string does not begin with a valid opening tag and a root node
\* otherwise; and when a child element is unclosed or a stray closing tag
\* appears, the children parsed before that point are kept in the tree.
C20_ParseTerminates ==
  /\ [][Running => Progress]_vars
  /\ [](SearchLeft(frames, parserPc) >= 0)
  /\ [](Running => frames # <<>>)
  /\ [](parserPc = "done" => RootMatches /\ PartialTreeKept)
  /\ [][KeepsChildren]_vars

\* <g><r/><r></g> was parsed: the <r/> before the unclosed <r> is the one
\* child of the root
C20_Witness ==
  /\ parserPc = "done"
  /\ svgString = MarkupWith(1, <<"<", "r", ">">>)
  /\ root = <<[tagName |-> <<"g">>, attributes |-> <<>>, children |-> <<LeafR>>]>>


---------------------------------------------------------------------------
(* The round trip of the markup parser *)

\* the tag names and the children of a parsed node, nothing else
RECURSIVE Shape(_)
Shape(node) ==
  [tagName |-> node.tagName,
   children |-> [i \in 1..Len(node.children) |-> Shape(node.children[i])]]

\* the node on top of the stack closed and added to the one below it
Closed(stack) ==
  [SubSeq(stack, 1, Len(stack) - 1) EXCEPT
     ![Len(stack) - 1].children =
       Append(@, [tagName |-> ToLowerCase(stack[Len(stack)].tagName),
                  children |-> stack[Len(stack)].children])]

\* the trees that a markup is the serialization of, containers written
\* <t>children</t> and leaves <t/>: read tag by tag with a stack of the open
\* containers; <<>> when the markup is not such a serialization
RECURSIVE TreesOf(_, _)
TreesOf(str, stack) ==
  IF str = <<>>
  THEN IF Len(stack) = 1 THEN stack[1].children ELSE <<>>
  ELSE IF Len(str) < 3 \/ str[1] # "<" THEN <<>>
  ELSE IF str[2] = "/"
  THEN IF Len(stack) > 1 /\ stack[Len(stack)].tagName = <<str[3]>>
       THEN TreesOf(SubstringFrom(str, 4), Closed(stack))
       ELSE <<>>
  ELSE IF str[3] = "/"
  THEN TreesOf(SubstringFrom(str, 4),
               Closed(Append(stack, [tagName |-> <<str[2]>>, children |-> <<>>])))
  ELSE TreesOf(SubstringFrom(str, 3),
               Append(stack, [tagName |-> <<str[2]>>, children |-> <<>>]))

\* the tree that svgString is the serialization of, as <<tree>>, or <<>>
Written ==
  IF Len(TreesOf(svgString, <<[tagName |-> <<>>, children |-> <<>>]>>)) = 1
  THEN TreesOf(svgString, <<[tagName |-> <<>>, children |-> <<>>]>>)
  ELSE <<>>

\* C25: parse of the serialization of a tree returns a tree with the same
\* tag name at every node and the same children in the same order, also
\* when a container has a same-named descendant, self-closing or not, or
\* same-named siblings after it.
C25_RoundTrip ==
  (parserPc = "done" /\ Written # <<>>) =>
    /\ root # <<>>
    /\ Shape(root[1]) = Written[1]

---------------------------------------------------------------------------
(* Properties of the path interpreter *)

\* a step that is a call of processCommand, the call, and what it produced
CallStep == Len(processed') = Len(processed) + 1
TheCall == processed'[Len(processed')]
Produced == Len(commands') - Len(commands)
NewCommand(g) == commands'[Len(commands) + g]

UpperCase(type) ==
  IF type \in {"m", "l", "h", "v", "c", "s", "q", "t", "a", "z"}
  THEN [m |-> "M", l |-> "L", h |-> "H", v |-> "V", c |-> "C", s |-> "S",
        q |-> "Q", t |-> "T", a |-> "A", z |-> "Z"][type]
  ELSE type
Relative(type) == UpperCase(type) # type

\* the call has k >= 1 complete coordinate groups
Complete(c) ==
  /\ Arity(c.command) > 0
  /\ Len(c.args) > 0
  /\ Len(c.args) % Arity(c.command) = 0
Groups(c) == Len(c.args) \div Arity(c.command)

Point(cmd) == <<cmd.x, cmd.y>>
Cursor == <<currentX, currentY>>
\* the cursor as the commands before group g of the call left it
CursorBefore(g) == IF g = 1 THEN Cursor ELSE Point(NewCommand(g - 1))

\* the point given by the numbers at i and i + 1 of the call, from the
\* cursor `cur` when the letter is a relative one
Given(c, i, cur) ==
  IF Relative(c.command)
  THEN <<JsAdd(cur[1], c.args[i]), JsAdd(cur[2], c.args[i + 1])>>
  ELSE <<c.args[i], c.args[i + 1]>>

\* the end point that group g of the call asks for
AskedEnd(c, g, cur) ==
  CASE UpperCase(c.command) = "H" ->
         <<IF Relative(c.command) THEN JsAdd(cur[1], c.args[g]) ELSE c.args[g], cur[2]>>
    [] UpperCase(c.command) = "V" ->
         <<cur[1], IF Relative(c.command) THEN JsAdd(cur[2], c.args[g]) ELSE c.args[g]>>
    [] OTHER -> Given(c, g * Arity(c.command) - 1, cur)

\* both radii of group g of an arc call are non-zero
NonZeroRadii(c, g) ==
  c.args[(g - 1) * 7 + 1] # Num(0) /\ c.args[(g - 1) * 7 + 2] # Num(0)

AskedType(c, g) ==
  CASE UpperCase(c.command) = "M" -> IF g = 1 THEN "M" ELSE "L"
    [] UpperCase(c.command) \in {"L", "H", "V"} -> "L"
    [] UpperCase(c.command) = "A" -> IF NonZeroRadii(c, g) THEN "C" ELSE "L"
    [] OTHER -> "C"

\* group g of the call produced the g-th new command, of the type and with
\* the points asked for
GroupProduced(c, g) ==
  /\ NewCommand(g).type = AskedType(c, g)
  /\ Point(NewCommand(g)) = AskedEnd(c, g, CursorBefore(g))
  /\ UpperCase(c.command) = "C" =>
       /\ <<NewCommand(g).cp1x, NewCommand(g).cp1y>>
            = Given(c, (g - 1) * 6 + 1, CursorBefore(g))
       /\ <<NewCommand(g).cp2x, NewCommand(g).cp2y>>
            = Given(c, (g - 1) * 6 + 3, CursorBefore(g))

Repeats(c) ==
  /\ Produced = Groups(c)
  /\ \A g \in 1..Groups(c) : GroupProduced(c, g)

\* C21 as stated: a command letter followed by k >= 1 complete coordinate
\* groups produces exactly k commands in input order (for M and m a MoveTo
\* and then LineTos), each relative group offset from the cursor as the
\* preceding group left it, whatever the letter.
C21_EveryLetter ==
  [][CallStep /\ Complete(TheCall) => Repeats(TheCall)]_vars

\* C21, amended: the same for every letter but A and a; k complete groups of
\* A or a produce one LineTo for each group with a zero radius and at most
\* four curves for each other group, nothing else.
C21_ImplicitRepetition ==
  [][CallStep /\ Complete(TheCall) =>
       IF UpperCase(TheCall.command) # "A"
       THEN Repeats(TheCall)
       ELSE /\ Produced <= 4 * Groups(TheCall)
            /\ \A g \in 1..Produced : NewCommand(g).type \in {"C", "L"}
            /\ (\A g \in 1..Groups(TheCall) : ~NonZeroRadii(TheCall, g))
                 => Repeats(TheCall)]_vars

\* two groups of a relative letter have been interpreted, and an arc that
\* is flattened into two curves
C21_Witness ==
  /\ \E i \in 1..Len(processed) :
       /\ processed[i].command = "c" /\ Len(processed[i].args) = 12
       /\ Len(commands) >= 2
       /\ commands[Len(commands)].type = "C"
       /\ commands[Len(commands) - 1].type = "C"
       /\ lastCommand = "C"
  /\ \E i \in 1..Len(processed) :
       /\ processed[i].command = "a" /\ Len(processed[i].args) = 7
       /\ NonZeroRadii(processed[i], 1)

\* C22: an arc with rx = 0 or ry = 0 produces exactly one LineTo to its end
\* point, no curve, and moves the cursor to its end point.
C22_DegenerateArc ==
  [][(/\ CallStep
      /\ UpperCase(TheCall.command) = "A"
      /\ Len(TheCall.args) = 7
      /\ ~NonZeroRadii(TheCall, 1)) =>
       /\ commands' = Append(commands,
                             [type |-> "L", x |-> Given(TheCall, 6, Cursor)[1],
                              y |-> Given(TheCall, 6, Cursor)[2]])
       /\ <<currentX, currentY>>' = Given(TheCall, 6, Cursor)]_vars

C22_Witness ==
  /\ processed # <<>>
  /\ processed[Len(processed)].command = "a"
  /\ processed[Len(processed)].args = Ints(<<2, 0, 0, 1, 0, 3, 4>>)
  /\ commands[Len(commands)].type = "L"
  /\ lastCommand = "L"

\* two numbers differ by at most 1e-6
Within1e6(a, b) ==
  /\ a.k = "num" /\ b.k = "num"
  /\ AbsInt(a.v - b.v) <= Scale \div (1000 * 1000)

PrevLetter ==
  IF processed = <<>> THEN "" ELSE UpperCase(processed[Len(processed)].command)

Reflected2(cur, control) ==
  <<Reflected(cur[1], control[1]), Reflected(cur[2], control[2])>>

\* the first control point that group g of an S call must get
SmoothControl(g) ==
  IF (IF g = 1 THEN PrevLetter \in {"C", "S"} ELSE TRUE)
  THEN Reflected2(CursorBefore(g),
                  <<commands'[Len(commands) + g - 1].cp2x,
                    commands'[Len(commands) + g - 1].cp2y>>)
  ELSE CursorBefore(g)

\* the quadratic control point that group g of a T call implies; `first` is
\* the one of group 1, cmds the commands after the call and n those before
RECURSIVE ImpliedControl(_, _, _, _)
ImpliedControl(first, cmds, n, g) ==
  IF g = 1 THEN first
  ELSE Reflected2(Point(cmds[n + g - 1]), ImpliedControl(first, cmds, n, g - 1))

FirstImplied ==
  IF PrevLetter \in {"Q", "T"}
  THEN Reflected2(Cursor, <<lastControlX, lastControlY>>)
  ELSE Cursor

\* the number of passes through the loop of the call
Passes(c) == (Len(c.args) + Arity(c.command) - 1) \div Arity(c.command)

\* C24: S reflects the second control point of the preceding curve about the
\* current point when the preceding command was C or S, and takes the current
\* point otherwise; T does the same with the quadratic control point kept by
\* the preceding Q or T; the control point kept after Q is the one given.
C24_SmoothReflection ==
  [][CallStep =>
       /\ UpperCase(TheCall.command) = "S" =>
            \A g \in 1..Passes(TheCall) :
              <<NewCommand(g).cp1x, NewCommand(g).cp1y>> = SmoothControl(g)
       /\ UpperCase(TheCall.command) = "T" =>
            /\ \A g \in 1..Passes(TheCall) :
                 /\ NewCommand(g).cp1x =
                      TwoThirdsTo(CursorBefore(g)[1],
                                  ImpliedControl(FirstImplied, commands',
                                                 Len(commands), g)[1])
                 /\ NewCommand(g).cp1y =
                      TwoThirdsTo(CursorBefore(g)[2],
                                  ImpliedControl(FirstImplied, commands',
                                                 Len(commands), g)[2])
            /\ <<lastControlX, lastControlY>>' =
                 ImpliedControl(FirstImplied, commands', Len(commands),
                                Passes(TheCall))
       /\ (UpperCase(TheCall.command) = "Q" /\ Complete(TheCall)) =>
            <<lastControlX, lastControlY>>' =
              Given(TheCall, Len(TheCall.args) - 3, CursorBefore(Groups(TheCall)))]_vars

\* S after C, T after Q, S after Q and T after C have been interpreted
C24_Witness ==
  /\ Len(processed) = 2
  /\ processed[1].command = "Q"
  /\ processed[2].command = "t" /\ Len(processed[2].args) = 4
  /\ Len(commands) = 3
  /\ lastCommand = "T"
  /\ lastControlX # currentX

\* a coordinate or the cursor is a finite number
FiniteCommand(cmd) ==
  /\ cmd.type \in {"M", "L", "C"} => IsFiniteNumber(cmd.x) /\ IsFiniteNumber(cmd.y)
  /\ cmd.type = "C" =>
       /\ IsFiniteNumber(cmd.cp1x) /\ IsFiniteNumber(cmd.cp1y)
       /\ IsFiniteNumber(cmd.cp2x) /\ IsFiniteNumber(cmd.cp2y)

\* the numbers of every call so far were finite
FiniteInput ==
  \A i \in 1..Len(processed) :
    \A j \in 1..Len(processed[i].args) : IsFiniteNumber(processed[i].args[j])

\* C30: with finite numbers in the input, every command carries finite
\* coordinates only and the cursor stays finite, also after a trailing group
\* that lacks numbers.
C30_FiniteCoordinates ==
  FiniteInput =>
    /\ \A i \in 1..Len(commands) : FiniteCommand(commands[i])
    /\ IsFiniteNumber(currentX) /\ IsFiniteNumber(currentY)


---------------------------------------------------------------------------
(* Properties of addSVG *)

\* the lines the current call of SVGtoPDF has appended: line i was pushed by
\* the call trail[i] names
Rendered == SubSeq(contentStream, before.length + 1, Len(contentStream))

PathOperators == {"m", "l", "c", "re", "h"}

\* lines i and j of Rendered were pushed for the same element
SameElement(i, j) ==
  trail[i].start = trail[j].start /\ trail[i].depth = trail[j].depth

\* no paint operator stands between lines i and j, and one follows them
PaintedTogether(i, j) ==
  /\ \A p \in i..j : Rendered[p].op \notin PaintOperators
  /\ \E p \in (j + 1)..Len(Rendered) : Rendered[p].op \in PaintOperators

\* C26: the path-construction operators (m, l, c, re, h) painted by one
\* paint operator all come from a single element: what an element that
\* paints nothing constructs is not left for the next element's paint.
C26_OwnPath ==
  \A i, j \in 1..Len(Rendered) :
    (/\ i < j
     /\ Rendered[i].op \in PathOperators
     /\ Rendered[j].op \in PathOperators
     /\ PaintedTogether(i, j)) => SameElement(i, j)

\* the alpha in force before line upto of lines, for the filling or the
\* stroking role: gs sets it, q saves it and Q brings the saved one back
RECURSIVE AlphaInForce(_, _, _, _, _, _)
AlphaInForce(lines, k, upto, role, alpha, saved) ==
  IF k >= upto THEN alpha
  ELSE IF lines[k].op = "q"
  THEN AlphaInForce(lines, k + 1, upto, role, alpha, Append(saved, alpha))
  ELSE IF lines[k].op = "Q" /\ saved # <<>>
  THEN AlphaInForce(lines, k + 1, upto, role, saved[Len(saved)],
                    SubSeq(saved, 1, Len(saved) - 1))
  ELSE IF lines[k].op = "gs" /\ lines[k].args[1].s = role
  THEN AlphaInForce(lines, k + 1, upto, role, lines[k].args[1].val, saved)
  ELSE AlphaInForce(lines, k + 1, upto, role, alpha, saved)

AlphaAt(p, role) ==
  AlphaInForce(contentStream, 1, before.length + p, role, Num(Scale), <<>>)

\* C27: at every paint operator the alpha in force (set by the most recent
\* gs in the enclosing q/Q scope, 1 without one) is the document's fill
\* opacity (for f, f*, B, B*) and stroke opacity (for S, B, B*) at the time
\* of the paint call.
C27_AlphaInForce ==
  \A p \in 1..Len(Rendered) :
    /\ Rendered[p].op \in FillPaints => AlphaAt(p, "fill") = trail[p].opacity.fill
    /\ Rendered[p].op \in StrokePaints =>
         AlphaAt(p, "stroke") = trail[p].opacity.stroke

\* the q and the Q among the first n lines of Rendered
SavesIn(n) == Cardinality({i \in 1..n : Rendered[i].op = "q"})
RestoresIn(n) == Cardinality({i \in 1..n : Rendered[i].op = "Q"})

\* C28: the lines one addSVG call appends hold as many q as Q once the call
\* is over, every prefix of them holds at least as many q as Q, on return
\* the depth of the transform stack and the CTM are what they were before
\* the call, and without a root element nothing is appended.
C28_Balanced ==
  /\ \A n \in 0..Len(Rendered) : SavesIn(n) >= RestoresIn(n)
  /\ (pending = <<>> \/ threw) => SavesIn(Len(Rendered)) = RestoresIn(Len(Rendered))
  /\ pending = <<>> => ctm = before.ctm /\ Len(ctmStack) = before.depth
  /\ ~before.root => Rendered = <<>>


---------------------------------------------------------------------------
(* Properties of the colour-space resources *)

\* a step that changes resources.ColorSpace adds one entry under a key that
\* was not there and leaves the entries there were as they are
RegistersFresh ==
  ColorSpace' # ColorSpace =>
    /\ Len(ColorSpace') = Len(ColorSpace) + 1
    /\ SubSeq(ColorSpace', 1, Len(ColorSpace)) = ColorSpace
    /\ ~HasKey(ColorSpace, ColorSpace'[Len(ColorSpace')].key)

SpotsRegistered ==
  \A name \in DOMAIN spotColors : HasKey(ColorSpace, spotColors[name].resourceName)

GenericLabs == {i \in 1..Len(ColorSpace) : IsGenericLab(ColorSpace[i])}

\* C29: colour-space resource names never collide: every call that
\* registers a colour-space resource creates a key that was not present and
\* overwrites no entry, every spot colour of spotColors has a resourceName
\* that is a key of resources.ColorSpace, and there is at most one name-less
\* Lab entry however many Lab fills and strokes are painted.
C29_NoCollision ==
  /\ [][RegistersFresh]_vars
  /\ [](SpotsRegistered /\ Cardinality(GenericLabs) <= 1)

\* a spot colour was defined, then a Lab fill painted twice
C29_Witness ==
  /\ Len(ColorSpace) = 2
  /\ ColorSpace[1].type = "Separation"
  /\ IsGenericLab(ColorSpace[2])
  /\ Cardinality({i \in 1..Len(contentStream) : contentStream[i].op = "scn"}) = 2

=============================================================================
